---------------------------- MODULE Spec2Model ----------------------------
(***************************************************************************)
(* A model of the village simulation's decision-and-economy core:          *)
(* the need system, the inventories, bilateral trade execution, family     *)
(* food distribution, the decision engine's slot planner and the engine's  *)
(* daily tick.                                                             *)
(*                                                                         *)
(* Python floats are modelled as exact rationals <<n, d>> (d > 0, lowest   *)
(* terms), so that clamps, clips and thresholds are decided exactly.       *)
(***************************************************************************)
EXTENDS Integers, Sequences, FiniteSets, TLC

VARIABLES
    need,          \* SpecNeed: one Need instance [name, satisfaction, decay_rate]
    needCalls,     \* SpecNeed: number of decay/satisfy calls made so far
    inv,           \* SpecInv: an Inventory [items, capacity]
    invPre,        \* SpecInv: the inventory as it was before the last call
    invCall,       \* SpecInv: the last call [op, item_type, quantity, item, ret]
    invCalls,      \* SpecInv: number of add/remove calls made so far
    offerer_inv,   \* SpecTrade: the offerer's family inventory
    target_inv,    \* SpecTrade: the target's family inventory
    total_trades,  \* SpecTrade: TradeSystem.total_trades
    total_items_exchanged, \* SpecTrade: TradeSystem.total_items_exchanged
    daily_trades,  \* SpecTrade: TradeSystem.daily_trades, a sequence
    tradePre,      \* SpecTrade: the five above as they were before the last call
    tradeCall,     \* SpecTrade: the last call [offer, day, ret]
    tradeCalls,    \* SpecTrade: number of execute_trade calls made so far
    clock_day,     \* SpecEngine: SimClock.day
    current_weather, \* SpecEngine: Climate.current_weather
    villagers,     \* SpecEngine: id -> [is_alive, health, health_need]
    pending_events, \* SpecEngine: EventSystem._pending_events
    snapshots,     \* SpecEngine: the day of each snapshot of MetricsCollector
    tickOutcome,   \* SpecEngine: how the last tick() ended
    tickPre,       \* SpecEngine: [day, snapshots, alive] before the last tick()
    ticks,         \* SpecEngine: number of tick() calls made so far
    fam_inventory, \* SpecFamily: Family.inventory
    fam_members,   \* SpecFamily: the members in member_ids order, [is_alive, hunger]
    famPre,        \* SpecFamily: [inventory, members] before the last call
    famOp,         \* SpecFamily: the last call made
    famCalls,      \* SpecFamily: number of calls made so far
    plan_villager, \* SpecPlan: the villager planned for
    plan_family_inventory, \* SpecPlan: its family's inventory
    schedule,      \* SpecPlan: the schedule the last plan_day returned
    slot_candidates, \* SpecPlan: per slot, the names of the candidates weighed
    planPre,       \* SpecPlan: the villager, inventory and inputs of the last call
    planOp,        \* SpecPlan: the last call made
    planCalls,     \* SpecPlan: number of calls made so far
    gini_values, \* SpecGini: the wealth list of the last gini_coefficient call
    gini_scale, \* SpecGini: the constant the list was also scaled by
    gini_result, \* SpecGini: gini_coefficient(values)
    gini_scaled_result, \* SpecGini: gini_coefficient([c * v for v in values])
    skill_experience, \* SpecMemory: Memory.skill_experience, activity -> XP
    mem_intelligence, \* SpecMemory: the villager's intelligence trait
    memPre, \* SpecMemory: skill_experience before the last call
    memOp, \* SpecMemory: the last call [activity, success]
    memCalls, \* SpecMemory: number of add_experience calls made so far
    sv_villager, \* SpecValue: the evaluating villager
    sv_item_type, \* SpecValue: the item valued
    sv_quantity, \* SpecValue: the quantity valued
    sv_family_inv, \* SpecValue: the family inventory passed, or None
    sv_value, \* SpecValue: hunger satisfaction -> subjective_value at that hunger
    day_villagers, \* SpecDay: SimulationEngine.villagers, the registry: a sequence, the id is the place
    day_family_inv, \* SpecDay: the inventory of the founders' family
    day_registry, \* SpecDay: _next_villager_id and FamilyManager.families as family_id -> member_ids
    stage_log, \* SpecDay: who each stage of the last tick worked on
    dayPre, \* SpecDay: day_villagers before the last tick
    dayTicks, \* SpecDay: number of ticks run so far
    res_nodes, \* SpecExec: ResourceManager._nodes: node_id -> ResourceNode
    exec_inv, \* SpecExec: the inventory of the harvesting villager's family
    execPre, \* SpecExec: nodes, inventory, target and roll of the last call
    execOutcome, \* SpecExec: how the last call ended
    execCalls, \* SpecExec: number of calls made so far
    eat_inventory, \* SpecEat: fam.inventory
    eat_members, \* SpecEat: hunger satisfaction of the family's members
    eatPasses, \* SpecEat: the foods list before and after each member's loop of the last call
    eatCalls, \* SpecEat: calls made
    kin, \* SpecKin: the villagers' sex, spouse_id and family_id, FamilyManager.families and _next_id
    kinPre, \* SpecKin: kin before the last call, and the couple married by it
    kinCalls, \* SpecKin: calls made
    rel_store, \* SpecRel: RelationshipManager._relationships
    rel_day, \* SpecRel: the current day
    rel_alive, \* SpecRel: ids of the living villagers
    relLog, \* SpecRel: the calls made, each with the store before it
    relCalls, \* SpecRel: calls made so far
    offer_hunger, \* SpecOffer: the proposer's hunger satisfaction
    offer_inv, \* SpecOffer: villager_inv of generate_offer
    offer_partner_inv, \* SpecOffer: partner_inv_estimate of generate_offer
    offer_results, \* SpecOffer: the offer generated for each ambition
    crop_plots, \* SpecCrop: CropManager.plots
    crop_inventory, \* SpecCrop: the farming family's inventory
    crop_day, \* SpecCrop: clock.day
    cropLog, \* SpecCrop: the ticks so far: the plots before, after dawn and at the end
    toil_villager, \* SpecToil: the villager
    toilLog, \* SpecToil: the days so far: the schedule, the villager each morning, after each plan, in the evening and after the night
    pick_scored, \* SpecPick: candidates, the (score, plan) pairs of the slot
    pick_ambition, \* SpecPick: villager.traits.ambition
    pick_plan, \* SpecPick: the plan _pick_next_activity returned
    pickCalls, \* SpecPick: calls so far
    dead_villagers, \* SpecCensus: SimulationEngine.dead_villagers, as ids in the order of their burial
    metrics, \* SpecCensus: MetricsCollector: the snapshots (population, births, deaths) and the two daily counters
    censusPre, \* SpecCensus: the number of the living before the last tick, and whether that tick ran its stages
    party_villagers, \* SpecParty: the villagers: is_alive and current_activity by id
    party_friends, \* SpecParty: RelationshipManager.get_friends(id) for each id
    work_parties, \* SpecParty: GroupManager.work_parties
    partyPre, \* SpecParty: the last call: its inputs, work_parties before it and the parties formed by it
    partyCalls \* SpecParty: calls of resolve_work_parties so far

needVars == <<need, needCalls>>
invVars == <<inv, invPre, invCall, invCalls>>

tradeVars == <<offerer_inv, target_inv, total_trades, total_items_exchanged,
               daily_trades, tradePre, tradeCall, tradeCalls>>

engineVars == <<clock_day, current_weather, villagers, pending_events,
                snapshots, tickOutcome, tickPre, ticks>>

famVars == <<fam_inventory, fam_members, famPre, famOp, famCalls>>

planVars == <<plan_villager, plan_family_inventory, schedule, slot_candidates,
              planPre, planOp, planCalls>>

giniVars == <<gini_values, gini_scale, gini_result, gini_scaled_result>>

memVars == <<skill_experience, mem_intelligence, memPre, memOp, memCalls>>

valueVars == <<sv_villager, sv_item_type, sv_quantity, sv_family_inv, sv_value>>

dayVars == <<day_villagers, day_family_inv, day_registry, stage_log, dayPre, dayTicks>>

execVars == <<res_nodes, exec_inv, execPre, execOutcome, execCalls>>

eatVars == <<eat_inventory, eat_members, eatPasses, eatCalls>>

kinVars == <<kin, kinPre, kinCalls>>

relVars == <<rel_store, rel_day, rel_alive, relLog, relCalls>>

offerVars == <<offer_hunger, offer_inv, offer_partner_inv, offer_results>>

cropVars == <<crop_plots, crop_inventory, crop_day, cropLog>>

toilVars == <<toil_villager, toilLog>>

pickVars == <<pick_scored, pick_ambition, pick_plan, pickCalls>>

censusVars == <<dead_villagers, metrics, censusPre>>

partyVars == <<party_villagers, party_friends, work_parties, partyPre, partyCalls>>

vars == <<need, needCalls, inv, invPre, invCall, invCalls,
          offerer_inv, target_inv, total_trades, total_items_exchanged,
          daily_trades, tradePre, tradeCall, tradeCalls,
          clock_day, current_weather, villagers, pending_events,
          snapshots, tickOutcome, tickPre, ticks,
          fam_inventory, fam_members, famPre, famOp, famCalls,
          plan_villager, plan_family_inventory, schedule, slot_candidates,
          planPre, planOp, planCalls,
          gini_values, gini_scale, gini_result, gini_scaled_result,
          skill_experience, mem_intelligence, memPre, memOp, memCalls,
          sv_villager, sv_item_type, sv_quantity, sv_family_inv, sv_value,
          day_villagers, day_family_inv, day_registry, stage_log, dayPre, dayTicks,
          res_nodes, exec_inv, execPre, execOutcome, execCalls,
          eat_inventory, eat_members, eatPasses, eatCalls,
          kin, kinPre, kinCalls,
          rel_store, rel_day, rel_alive, relLog, relCalls,
          offer_hunger, offer_inv, offer_partner_inv, offer_results,
          crop_plots, crop_inventory, crop_day, cropLog,
          toil_villager, toilLog,
          pick_scored, pick_ambition, pick_plan, pickCalls,
          dead_villagers, metrics, censusPre,
          party_villagers, party_friends, work_parties, partyPre, partyCalls>>

\* The variables a specification of one group leaves alone.
nonNeedVars == <<invVars, tradeVars, engineVars, famVars, planVars, giniVars, memVars, valueVars, dayVars, execVars, eatVars, kinVars, relVars, offerVars, cropVars, toilVars, pickVars, censusVars, partyVars>>
nonInvVars == <<needVars, tradeVars, engineVars, famVars, planVars, giniVars, memVars, valueVars, dayVars, execVars, eatVars, kinVars, relVars, offerVars, cropVars, toilVars, pickVars, censusVars, partyVars>>
nonTradeVars == <<needVars, invVars, engineVars, famVars, planVars, giniVars, memVars, valueVars, dayVars, execVars, eatVars, kinVars, relVars, offerVars, cropVars, toilVars, pickVars, censusVars, partyVars>>
nonEngineVars == <<needVars, invVars, tradeVars, famVars, planVars, giniVars, memVars, valueVars, dayVars, execVars, eatVars, kinVars, relVars, offerVars, cropVars, toilVars, pickVars, censusVars, partyVars>>
nonFamVars == <<needVars, invVars, tradeVars, engineVars, planVars, giniVars, memVars, valueVars, dayVars, execVars, eatVars, kinVars, relVars, offerVars, cropVars, toilVars, pickVars, censusVars, partyVars>>
nonPlanVars == <<needVars, invVars, tradeVars, engineVars, famVars, giniVars, memVars, valueVars, dayVars, execVars, eatVars, kinVars, relVars, offerVars, cropVars, toilVars, pickVars, censusVars, partyVars>>
nonGiniVars == <<needVars, invVars, tradeVars, engineVars, famVars, planVars, memVars, valueVars, dayVars, execVars, eatVars, kinVars, relVars, offerVars, cropVars, toilVars, pickVars, censusVars, partyVars>>
nonMemVars == <<needVars, invVars, tradeVars, engineVars, famVars, planVars, giniVars, valueVars, dayVars, execVars, eatVars, kinVars, relVars, offerVars, cropVars, toilVars, pickVars, censusVars, partyVars>>
nonValueVars == <<needVars, invVars, tradeVars, engineVars, famVars, planVars, giniVars, memVars, dayVars, execVars, eatVars, kinVars, relVars, offerVars, cropVars, toilVars, pickVars, censusVars, partyVars>>
nonDayVars == <<needVars, invVars, tradeVars, engineVars, famVars, planVars, giniVars, memVars, valueVars, execVars, eatVars, kinVars, relVars, offerVars, cropVars, toilVars, pickVars, censusVars, partyVars>>
nonExecVars == <<needVars, invVars, tradeVars, engineVars, famVars, planVars, giniVars, memVars, valueVars, dayVars, eatVars, kinVars, relVars, offerVars, cropVars, toilVars, pickVars, censusVars, partyVars>>
nonEatVars == <<needVars, invVars, tradeVars, engineVars, famVars, planVars, giniVars, memVars, valueVars, dayVars, execVars, kinVars, relVars, offerVars, cropVars, toilVars, pickVars, censusVars, partyVars>>
nonKinVars == <<needVars, invVars, tradeVars, engineVars, famVars, planVars, giniVars, memVars, valueVars, dayVars, execVars, eatVars, relVars, offerVars, cropVars, toilVars, pickVars, censusVars, partyVars>>
nonRelVars == <<needVars, invVars, tradeVars, engineVars, famVars, planVars, giniVars, memVars, valueVars, dayVars, execVars, eatVars, kinVars, offerVars, cropVars, toilVars, pickVars, censusVars, partyVars>>
nonOfferVars == <<needVars, invVars, tradeVars, engineVars, famVars, planVars, giniVars, memVars, valueVars, dayVars, execVars, eatVars, kinVars, relVars, cropVars, toilVars, pickVars, censusVars, partyVars>>
nonCropVars == <<needVars, invVars, tradeVars, engineVars, famVars, planVars, giniVars, memVars, valueVars, dayVars, execVars, eatVars, kinVars, relVars, offerVars, toilVars, pickVars, censusVars, partyVars>>
nonToilVars == <<needVars, invVars, tradeVars, engineVars, famVars, planVars, giniVars, memVars, valueVars, dayVars, execVars, eatVars, kinVars, relVars, offerVars, cropVars, pickVars, censusVars, partyVars>>
nonPickVars == <<needVars, invVars, tradeVars, engineVars, famVars, planVars, giniVars, memVars, valueVars, dayVars, execVars, eatVars, kinVars, relVars, offerVars, cropVars, toilVars, censusVars, partyVars>>
nonCensusVars == <<needVars, invVars, tradeVars, engineVars, famVars, planVars, giniVars, memVars, valueVars, dayVars, execVars, eatVars, kinVars, relVars, offerVars, cropVars, toilVars, pickVars, partyVars>>
nonPartyVars == <<needVars, invVars, tradeVars, engineVars, famVars, planVars, giniVars, memVars, valueVars, dayVars, execVars, eatVars, kinVars, relVars, offerVars, cropVars, toilVars, pickVars, censusVars>>

\* The value of each group of variables in a specification that does not
\* use it.
NeedIdle == need = "none" /\ needCalls = 0
InvIdle == inv = "none" /\ invPre = "none" /\ invCall = "none" /\ invCalls = 0
TradeIdle ==
    /\ offerer_inv = "none" /\ target_inv = "none"
    /\ total_trades = 0 /\ total_items_exchanged = "none"
    /\ daily_trades = <<>> /\ tradePre = "none" /\ tradeCall = "none"
    /\ tradeCalls = 0
EngineIdle ==
    /\ clock_day = 0 /\ current_weather = "none" /\ villagers = "none"
    /\ pending_events = <<>> /\ snapshots = <<>> /\ tickOutcome = "none"
    /\ tickPre = "none" /\ ticks = 0
FamIdle ==
    /\ fam_inventory = "none" /\ fam_members = <<>> /\ famPre = "none"
    /\ famOp = "none" /\ famCalls = 0
PlanIdle ==
    /\ plan_villager = "none" /\ plan_family_inventory = "none"
    /\ schedule = <<>> /\ slot_candidates = <<>> /\ planPre = "none"
    /\ planOp = "none" /\ planCalls = 0

GiniIdle ==
    /\ gini_values = <<>>
    /\ gini_scale = "none"
    /\ gini_result = "none"
    /\ gini_scaled_result = "none"
MemIdle ==
    /\ skill_experience = "none"
    /\ mem_intelligence = "none"
    /\ memPre = "none"
    /\ memOp = "none"
    /\ memCalls = 0
ValueIdle ==
    /\ sv_villager = "none"
    /\ sv_item_type = "none"
    /\ sv_quantity = "none"
    /\ sv_family_inv = "none"
    /\ sv_value = "none"
DayIdle ==
    /\ day_villagers = "none"
    /\ day_family_inv = "none"
    /\ day_registry = "none"
    /\ stage_log = "none"
    /\ dayPre = "none"
    /\ dayTicks = 0
ExecIdle ==
    /\ res_nodes = "none"
    /\ exec_inv = "none"
    /\ execPre = "none"
    /\ execOutcome = "none"
    /\ execCalls = 0
EatIdle ==
    /\ eat_inventory = "none"
    /\ eat_members = "none"
    /\ eatPasses = <<>>
    /\ eatCalls = 0
KinIdle ==
    /\ kin = "none"
    /\ kinPre = "none"
    /\ kinCalls = 0
RelIdle ==
    /\ rel_store = "none"
    /\ rel_day = 0
    /\ rel_alive = {}
    /\ relLog = <<>>
    /\ relCalls = 0
OfferIdle ==
    /\ offer_hunger = "none"
    /\ offer_inv = "none"
    /\ offer_partner_inv = "none"
    /\ offer_results = <<>>
CropIdle ==
    /\ crop_plots = <<>>
    /\ crop_inventory = "none"
    /\ crop_day = 0
    /\ cropLog = <<>>
ToilIdle ==
    /\ toil_villager = "none"
    /\ toilLog = <<>>
PickIdle ==
    /\ pick_scored = <<>>
    /\ pick_ambition = 0
    /\ pick_plan = "none"
    /\ pickCalls = 0
CensusIdle ==
    /\ dead_villagers = <<>>
    /\ metrics = "none"
    /\ censusPre = "none"
PartyIdle ==
    /\ party_villagers = <<>>
    /\ party_friends = <<>>
    /\ work_parties = <<>>
    /\ partyPre = "none"
    /\ partyCalls = 0
-----------------------------------------------------------------------------
(* Exact rational arithmetic.                                              *)

RECURSIVE Gcd(_, _)
Gcd(a, b) == IF b = 0 THEN a ELSE Gcd(b, a % b)

Abs(x) == IF x < 0 THEN -x ELSE x

\* A local variable of the code, assigned once and read many times, is
\* written  CHOOSE r \in {e(x) : x \in {v}} : TRUE  (e of the value of v)
\* where v is costly to evaluate.

\* The rational n/d in lowest terms with a positive denominator.
R(n, d) ==
    LET s == IF d < 0 THEN -1 ELSE 1
        g == Gcd(Abs(n), Abs(d))
    IN  <<(s * n) \div g, (s * d) \div g>>

Zero == <<0, 1>>
One == <<1, 1>>

\* The operands are evaluated once each, as Python evaluates arguments.
RAdd(a, b) ==
    CHOOSE r \in {R(x[1] * y[2] + y[1] * x[2], x[2] * y[2]) : x \in {a}, y \in {b}} : TRUE
RSub(a, b) ==
    CHOOSE r \in {R(x[1] * y[2] - y[1] * x[2], x[2] * y[2]) : x \in {a}, y \in {b}} : TRUE
RMul(a, b) ==
    CHOOSE r \in {R(x[1] * y[1], x[2] * y[2]) : x \in {a}, y \in {b}} : TRUE
RDiv(a, b) ==
    CHOOSE r \in {R(x[1] * y[2], x[2] * y[1]) : x \in {a}, y \in {b}} : TRUE
RNeg(a) == <<-a[1], a[2]>>
RLt(a, b) == a[1] * b[2] < b[1] * a[2]
RLe(a, b) == a[1] * b[2] <= b[1] * a[2]
RMin(a, b) ==
    CHOOSE r \in {IF RLe(x, y) THEN x ELSE y : x \in {a}, y \in {b}} : TRUE
RMax(a, b) ==
    CHOOSE r \in {IF RLe(x, y) THEN y ELSE x : x \in {a}, y \in {b}} : TRUE
RAbs(a) == <<Abs(a[1]), a[2]>>

-----------------------------------------------------------------------------
(* agents/needs.py: Need and NeedSystem.                                   *)

NeedNames == {"hunger", "thirst", "rest", "warmth", "shelter", "safety",
              "health", "social", "purpose", "comfort"}

\* core/config.py decay rates, as NeedSystem.__init__ assigns them
\* (health: 0.0, no natural decay).
DecayRate(name) ==
    CASE name = "hunger"  -> R(35, 100)
      [] name = "thirst"  -> R(50, 100)
      [] name = "rest"    -> R(30, 100)
      [] name = "warmth"  -> R(10, 100)
      [] name = "shelter" -> R(5, 100)
      [] name = "safety"  -> R(2, 100)
      [] name = "health"  -> Zero
      [] name = "social"  -> R(5, 100)
      [] name = "purpose" -> R(1, 100)
      [] name = "comfort" -> R(3, 100)

\* NeedSystem.__init__: every need starts fully satisfied, comfort at 0.5.
InitialSatisfaction(name) == IF name = "comfort" THEN R(1, 2) ELSE One

\* Need.decay: satisfaction -= decay_rate * modifier, then max(0.0, .).
Need_decay(n, modifier) ==
    [n EXCEPT !.satisfaction =
        RMax(Zero, RSub(n.satisfaction, RMul(n.decay_rate, modifier)))]

\* Need.satisfy: satisfaction = min(1.0, satisfaction + amount).
Need_satisfy(n, amount) ==
    [n EXCEPT !.satisfaction = RMin(One, RAdd(n.satisfaction, amount))]

-----------------------------------------------------------------------------
(* SpecNeed: one Need under the calls the engine and the event system make.*)

MaxNeedCalls == 4

\* Modifiers NeedSystem.daily_decay passes to Need.decay: 0 (suppressed),
\* the shelter floor, warmth modifiers of the climate.
DecayModifiers == {Zero, R(3, 10), R(1, 2), One, R(5, 2)}

\* Amounts the engine passes to Need.satisfy: activity, social, thirst and
\* healing credits.
SatisfyAmounts == {R(1, 20), R(1, 10), R(3, 10), R(2, 5)}

\* health_damage of a disease event: rng.uniform(10, 30).
HealthDamages == {10, 20, 30}

InitNeed ==
    /\ \E name \in NeedNames :
          need = [name |-> name,
                  satisfaction |-> InitialSatisfaction(name),
                  decay_rate |-> DecayRate(name)]
    /\ needCalls = 0

\* need.decay(modifier)
NeedDecay ==
    /\ needCalls < MaxNeedCalls
    /\ \E m \in DecayModifiers : need' = Need_decay(need, m)
    /\ needCalls' = needCalls + 1
    /\ UNCHANGED nonNeedVars

\* need.satisfy(amount)
NeedSatisfy ==
    /\ needCalls < MaxNeedCalls
    /\ \E a \in SatisfyAmounts : need' = Need_satisfy(need, a)
    /\ needCalls' = needCalls + 1
    /\ UNCHANGED nonNeedVars

\* EventSystem.apply_events, disease branch, as seen by the health need of
\* an affected villager: v.needs.satisfy("health", -health_damage / 100.0).
NeedDiseaseEvent ==
    /\ needCalls < MaxNeedCalls
    /\ need.name = "health"
    /\ \E hd \in HealthDamages : need' = Need_satisfy(need, R(-hd, 100))
    /\ needCalls' = needCalls + 1
    /\ UNCHANGED nonNeedVars

NextNeed == NeedDecay \/ NeedSatisfy \/ NeedDiseaseEvent

-----------------------------------------------------------------------------
(* economy/inventory.py: the item catalog, Item and Inventory.             *)

\* ITEM_CATALOG, in its insertion order.
CatalogOrder ==
    <<"berries",
      "raw_meat",
      "cooked_meat",
      "dried_meat",
      "grain",
      "bread",
      "fish",
      "dried_fish",
      "vegetables",
      "timber",
      "stone",
      "clay",
      "iron_ore",
      "plant_fiber",
      "animal_hide",
      "tanned_leather",
      "firewood",
      "stone_axe",
      "stone_knife",
      "wooden_spear",
      "fishing_rod",
      "bow",
      "arrows",
      "hoe",
      "hammer",
      "pickaxe",
      "rope",
      "basket",
      "clay_pot",
      "cloth",
      "clothing",
      "medicine">>

ItemTypes == {CatalogOrder[i] : i \in 1..Len(CatalogOrder)}

\* ITEM_CATALOG[t] with the defaults the Item properties apply:
\* perish_days 9999, food_value 0.0, no tool_type (""), max_durability 0.
Catalog(t) ==
    CASE t = "berries" ->
           [weight |-> R(1, 2), perishable |-> TRUE, perish_days |-> 5,
            is_food |-> TRUE, food_value |-> R(1, 2),
            tool_type |-> "", max_durability |-> 0]
      [] t = "raw_meat" ->
           [weight |-> R(2, 1), perishable |-> TRUE, perish_days |-> 3,
            is_food |-> TRUE, food_value |-> R(1, 1),
            tool_type |-> "", max_durability |-> 0]
      [] t = "cooked_meat" ->
           [weight |-> R(3, 2), perishable |-> TRUE, perish_days |-> 7,
            is_food |-> TRUE, food_value |-> R(3, 2),
            tool_type |-> "", max_durability |-> 0]
      [] t = "dried_meat" ->
           [weight |-> R(1, 1), perishable |-> TRUE, perish_days |-> 60,
            is_food |-> TRUE, food_value |-> R(6, 5),
            tool_type |-> "", max_durability |-> 0]
      [] t = "grain" ->
           [weight |-> R(1, 1), perishable |-> TRUE, perish_days |-> 180,
            is_food |-> TRUE, food_value |-> R(4, 5),
            tool_type |-> "", max_durability |-> 0]
      [] t = "bread" ->
           [weight |-> R(1, 2), perishable |-> TRUE, perish_days |-> 5,
            is_food |-> TRUE, food_value |-> R(1, 1),
            tool_type |-> "", max_durability |-> 0]
      [] t = "fish" ->
           [weight |-> R(3, 2), perishable |-> TRUE, perish_days |-> 2,
            is_food |-> TRUE, food_value |-> R(1, 1),
            tool_type |-> "", max_durability |-> 0]
      [] t = "dried_fish" ->
           [weight |-> R(4, 5), perishable |-> TRUE, perish_days |-> 90,
            is_food |-> TRUE, food_value |-> R(1, 1),
            tool_type |-> "", max_durability |-> 0]
      [] t = "vegetables" ->
           [weight |-> R(1, 1), perishable |-> TRUE, perish_days |-> 10,
            is_food |-> TRUE, food_value |-> R(1, 2),
            tool_type |-> "", max_durability |-> 0]
      [] t = "timber" ->
           [weight |-> R(10, 1), perishable |-> FALSE, perish_days |-> 9999,
            is_food |-> FALSE, food_value |-> R(0, 1),
            tool_type |-> "", max_durability |-> 0]
      [] t = "stone" ->
           [weight |-> R(15, 1), perishable |-> FALSE, perish_days |-> 9999,
            is_food |-> FALSE, food_value |-> R(0, 1),
            tool_type |-> "", max_durability |-> 0]
      [] t = "clay" ->
           [weight |-> R(5, 1), perishable |-> FALSE, perish_days |-> 9999,
            is_food |-> FALSE, food_value |-> R(0, 1),
            tool_type |-> "", max_durability |-> 0]
      [] t = "iron_ore" ->
           [weight |-> R(12, 1), perishable |-> FALSE, perish_days |-> 9999,
            is_food |-> FALSE, food_value |-> R(0, 1),
            tool_type |-> "", max_durability |-> 0]
      [] t = "plant_fiber" ->
           [weight |-> R(1, 2), perishable |-> FALSE, perish_days |-> 9999,
            is_food |-> FALSE, food_value |-> R(0, 1),
            tool_type |-> "", max_durability |-> 0]
      [] t = "animal_hide" ->
           [weight |-> R(3, 1), perishable |-> TRUE, perish_days |-> 30,
            is_food |-> FALSE, food_value |-> R(0, 1),
            tool_type |-> "", max_durability |-> 0]
      [] t = "tanned_leather" ->
           [weight |-> R(2, 1), perishable |-> FALSE, perish_days |-> 9999,
            is_food |-> FALSE, food_value |-> R(0, 1),
            tool_type |-> "", max_durability |-> 0]
      [] t = "firewood" ->
           [weight |-> R(5, 1), perishable |-> FALSE, perish_days |-> 9999,
            is_food |-> FALSE, food_value |-> R(0, 1),
            tool_type |-> "", max_durability |-> 0]
      [] t = "stone_axe" ->
           [weight |-> R(2, 1), perishable |-> FALSE, perish_days |-> 9999,
            is_food |-> FALSE, food_value |-> R(0, 1),
            tool_type |-> "axe", max_durability |-> 50]
      [] t = "stone_knife" ->
           [weight |-> R(1, 2), perishable |-> FALSE, perish_days |-> 9999,
            is_food |-> FALSE, food_value |-> R(0, 1),
            tool_type |-> "knife", max_durability |-> 40]
      [] t = "wooden_spear" ->
           [weight |-> R(2, 1), perishable |-> FALSE, perish_days |-> 9999,
            is_food |-> FALSE, food_value |-> R(0, 1),
            tool_type |-> "spear", max_durability |-> 30]
      [] t = "fishing_rod" ->
           [weight |-> R(1, 1), perishable |-> FALSE, perish_days |-> 9999,
            is_food |-> FALSE, food_value |-> R(0, 1),
            tool_type |-> "fishing", max_durability |-> 40]
      [] t = "bow" ->
           [weight |-> R(3, 2), perishable |-> FALSE, perish_days |-> 9999,
            is_food |-> FALSE, food_value |-> R(0, 1),
            tool_type |-> "ranged", max_durability |-> 60]
      [] t = "arrows" ->
           [weight |-> R(1, 10), perishable |-> FALSE, perish_days |-> 9999,
            is_food |-> FALSE, food_value |-> R(0, 1),
            tool_type |-> "ammo", max_durability |-> 0]
      [] t = "hoe" ->
           [weight |-> R(5, 2), perishable |-> FALSE, perish_days |-> 9999,
            is_food |-> FALSE, food_value |-> R(0, 1),
            tool_type |-> "farming", max_durability |-> 50]
      [] t = "hammer" ->
           [weight |-> R(3, 1), perishable |-> FALSE, perish_days |-> 9999,
            is_food |-> FALSE, food_value |-> R(0, 1),
            tool_type |-> "construction", max_durability |-> 70]
      [] t = "pickaxe" ->
           [weight |-> R(4, 1), perishable |-> FALSE, perish_days |-> 9999,
            is_food |-> FALSE, food_value |-> R(0, 1),
            tool_type |-> "mining", max_durability |-> 60]
      [] t = "rope" ->
           [weight |-> R(1, 1), perishable |-> FALSE, perish_days |-> 9999,
            is_food |-> FALSE, food_value |-> R(0, 1),
            tool_type |-> "", max_durability |-> 0]
      [] t = "basket" ->
           [weight |-> R(1, 2), perishable |-> FALSE, perish_days |-> 9999,
            is_food |-> FALSE, food_value |-> R(0, 1),
            tool_type |-> "", max_durability |-> 0]
      [] t = "clay_pot" ->
           [weight |-> R(2, 1), perishable |-> FALSE, perish_days |-> 9999,
            is_food |-> FALSE, food_value |-> R(0, 1),
            tool_type |-> "", max_durability |-> 0]
      [] t = "cloth" ->
           [weight |-> R(1, 2), perishable |-> FALSE, perish_days |-> 9999,
            is_food |-> FALSE, food_value |-> R(0, 1),
            tool_type |-> "", max_durability |-> 0]
      [] t = "clothing" ->
           [weight |-> R(1, 1), perishable |-> FALSE, perish_days |-> 9999,
            is_food |-> FALSE, food_value |-> R(0, 1),
            tool_type |-> "", max_durability |-> 0]
      [] t = "medicine" ->
           [weight |-> R(1, 5), perishable |-> TRUE, perish_days |-> 30,
            is_food |-> FALSE, food_value |-> R(0, 1),
            tool_type |-> "", max_durability |-> 0]

None == [item_type |-> "None"]

\* food_items(): the catalog's item types that have a food_value, in
\* catalog order.
food_items == SelectSeq(CatalogOrder, LAMBDA t : Catalog(t).is_food)

\* Item(item_type, quantity, quality) with the dataclass defaults:
\* days_since_created 0, current_durability 0.0, max_durability 0.0.
Item(t, qty, quality) ==
    [item_type |-> t, quantity |-> qty, quality |-> quality,
     days_since_created |-> 0,
     current_durability |-> Zero, max_durability |-> Zero]

\* create_item: an Item with the catalog's max_durability as both
\* durabilities.
create_item(t, qty, quality) ==
    [Item(t, qty, quality) EXCEPT
        !.current_durability = R(Catalog(t).max_durability, 1),
        !.max_durability = R(Catalog(t).max_durability, 1)]

weight_per_unit(item) == Catalog(item.item_type).weight
Item_total_weight(item) == RMul(item.quantity, weight_per_unit(item))
Item_food_value(item) == Catalog(item.item_type).food_value
is_tool(item) == Catalog(item.item_type).tool_type # ""

\* Item.tool_quality: quality degraded by durability.
tool_quality(item) ==
    IF ~is_tool(item) \/ item.max_durability = Zero
    THEN item.quality
    ELSE RMul(item.quality, RDiv(item.current_durability, item.max_durability))

\* Inventory(capacity): items is the dict item_type -> list of stacks, kept
\* as a sequence of [item_type, stacks] entries in insertion order.
Inventory(capacity) == [items |-> <<>>, capacity |-> capacity]

KeyIndex(iv, t) ==
    IF \E i \in 1..Len(iv.items) : iv.items[i].item_type = t
    THEN CHOOSE i \in 1..Len(iv.items) : iv.items[i].item_type = t
    ELSE 0

HasKey(iv, t) == KeyIndex(iv, t) # 0

\* self.items.get(t, [])
StacksOf(iv, t) == IF HasKey(iv, t) THEN iv.items[KeyIndex(iv, t)].stacks ELSE <<>>

\* self.items[t] = stacks
SetStacks(iv, t, stacks) ==
    IF HasKey(iv, t)
    THEN [iv EXCEPT !.items[KeyIndex(iv, t)].stacks = stacks]
    ELSE [iv EXCEPT !.items = Append(@, [item_type |-> t, stacks |-> stacks])]

\* del self.items[t]
DelKey(iv, t) ==
    [iv EXCEPT !.items = SelectSeq(@, LAMBDA e : e.item_type # t)]

RECURSIVE SumFrom(_, _)
SumFrom(q, i) ==
    IF i > Len(q) THEN Zero
    ELSE CHOOSE r \in {RAdd(q[i], rest) : rest \in {SumFrom(q, i + 1)}} : TRUE

\* sum(q) of a sequence of numbers
SumSeq(q) == CHOOSE r \in {SumFrom(s, 1) : s \in {q}} : TRUE

\* Inventory.total_of
total_of(iv, t) ==
    LET st == StacksOf(iv, t)
    IN  SumSeq([i \in 1..Len(st) |-> st[i].quantity])

\* Inventory.total_weight
total_weight(iv) ==
    SumSeq([k \in 1..Len(iv.items) |->
              SumSeq([i \in 1..Len(iv.items[k].stacks) |->
                        Item_total_weight(iv.items[k].stacks[i])])])

\* Inventory.total_food_value
total_food_value(iv) ==
    SumSeq([k \in 1..Len(food_items) |->
              LET st == StacksOf(iv, food_items[k])
              IN  SumSeq([i \in 1..Len(st) |->
                            RMul(st[i].quantity, Item_food_value(st[i]))])])

\* The minimal addable amount of Inventory.add (0.01 units).
MinAddable == R(1, 100)

\* The quality distance below which Inventory.add merges stacks (0.05).
MergeQuality == R(1, 20)

\* The stack in which add merges the item: the first of similar quality,
\* never for a tool; 0 when the item is appended as a new stack.
MergeIndex(stacks, item) ==
    LET ok(i) == RLt(RAbs(RSub(stacks[i].quality, item.quality)), MergeQuality)
                 /\ ~is_tool(item)
    IN  IF \E i \in 1..Len(stacks) : ok(i)
        THEN CHOOSE i \in 1..Len(stacks) :
                ok(i) /\ \A j \in 1..(i - 1) : ~ok(j)
        ELSE 0

\* Inventory.add without the partial add: an overflowing item is stored
\* whole.
Inventory_add_NoClip(iv, item0) ==
    LET stacks == StacksOf(iv, item0.item_type)
    IN  [inv |-> SetStacks(iv, item0.item_type, Append(stacks, item0)),
         ret |-> TRUE]

\* What add stores of item0 when the inventory holds the weight tw: the
\* item, the item clipped to the remaining capacity, or nothing.
Admitted(capacity, tw, item0) ==
    IF ~RLt(capacity, RAdd(tw, Item_total_weight(item0)))
    THEN [ok |-> TRUE, item |-> item0]
    ELSE CHOOSE r \in
           { IF RLe(available, Zero)
             THEN [ok |-> FALSE, item |-> item0]
             ELSE IF RLt(RDiv(available, weight_per_unit(item0)), MinAddable)
             THEN [ok |-> FALSE, item |-> item0]
             ELSE [ok |-> TRUE,
                   item |-> [item0 EXCEPT !.quantity =
                               RDiv(available, weight_per_unit(item0))]] :
             available \in {RSub(capacity, tw)} } : TRUE

\* The inventory with item merged into stack m of stacks, or appended
\* when m = 0.
Stored(iv, item, stacks, m) ==
    IF m # 0
    THEN SetStacks(iv, item.item_type,
                   [stacks EXCEPT ![m].quantity = RAdd(@, item.quantity)])
    ELSE SetStacks(iv, item.item_type, Append(stacks, item))

\* Inventory.add(item): [inv, ret].
Inventory_add(iv, item0) ==
    CHOOSE r \in
      { IF a.ok
        THEN [inv |-> Stored(iv, a.item, StacksOf(iv, a.item.item_type),
                             MergeIndex(StacksOf(iv, a.item.item_type), a.item)),
              ret |-> TRUE]
        ELSE [inv |-> iv, ret |-> FALSE] :
        a \in {Admitted(iv.capacity, total_weight(iv), item0)} } : TRUE

\* The quantity at or below which Inventory.remove pops a stack (0.001).
PopThreshold == R(1, 1000)

\* The loop of Inventory.remove taking whole stacks: take is not capped by
\* the quantity still wanted.
RECURSIVE RemoveLoop_WholeStacks(_, _, _, _)
RemoveLoop_WholeStacks(stacks, quantity, removed_qty, avg_quality) ==
    IF ~(RLt(removed_qty, quantity) /\ stacks # <<>>)
    THEN [stacks |-> stacks, removed_qty |-> removed_qty, avg_quality |-> avg_quality]
    ELSE CHOOSE r \in
           {RemoveLoop_WholeStacks(Tail(stacks), quantity, tot, Head(stacks).quality) :
              tot \in {RAdd(removed_qty, Head(stacks).quantity)}} : TRUE

\* One pass of the while loop of Inventory.remove on the oldest stack:
\* the new removed_qty, avg_quality and what is left of the stack.
RemoveStep(stack, removed_qty, avg_quality, take) ==
    [removed_qty |-> RAdd(removed_qty, take),
     avg_quality |-> IF RLt(Zero, RAdd(removed_qty, take))
                     THEN RDiv(RAdd(RMul(avg_quality, removed_qty),
                                    RMul(stack.quality, take)),
                               RAdd(removed_qty, take))
                     ELSE Zero,
     left |-> RSub(stack.quantity, take)]

\* The while loop of Inventory.remove: oldest stacks first.
RECURSIVE RemoveLoop(_, _, _, _)
RemoveLoop(stacks, quantity, removed_qty, avg_quality) ==
    IF ~(RLt(removed_qty, quantity) /\ stacks # <<>>)
    THEN [stacks |-> stacks, removed_qty |-> removed_qty, avg_quality |-> avg_quality]
    ELSE CHOOSE r \in
           { RemoveLoop(IF RLe(n.left, PopThreshold)
                        THEN Tail(stacks)
                        ELSE <<[Head(stacks) EXCEPT !.quantity = n.left]>>
                             \o Tail(stacks),
                        quantity, n.removed_qty, n.avg_quality) :
             n \in {RemoveStep(Head(stacks), removed_qty, avg_quality,
                               RMin(RSub(quantity, removed_qty),
                                    Head(stacks).quantity))} } : TRUE

\* Inventory.remove(item_type, quantity): [inv, item], item None or the
\* removed Item (a fresh Item: age and durabilities at their defaults).
Inventory_remove(iv, t, quantity) ==
    IF ~HasKey(iv, t) THEN [inv |-> iv, item |-> None]
    ELSE CHOOSE res \in
           { IF RLe(r.removed_qty, Zero)
             THEN [inv |-> SetStacks(iv, t, r.stacks), item |-> None]
             ELSE [inv |-> IF r.stacks = <<>> THEN DelKey(iv, t)
                           ELSE SetStacks(iv, t, r.stacks),
                   item |-> Item(t, r.removed_qty, r.avg_quality)] :
             r \in {RemoveLoop(StacksOf(iv, t), quantity, Zero, Zero)} } : TRUE

\* Inventory.get_best_tool(tool_type): the functional tool (durability > 0)
\* of the highest tool_quality, the first such in iteration order; None.
AllStacks(iv) ==
    LET RECURSIVE Flat(_)
        Flat(k) == IF k > Len(iv.items) THEN <<>>
                   ELSE iv.items[k].stacks \o Flat(k + 1)
    IN  Flat(1)

get_best_tool(iv, tool_type) ==
    LET all == AllStacks(iv)
        ok(i) == Catalog(all[i].item_type).tool_type = tool_type
                 /\ RLt(Zero, all[i].current_durability)
    IN  IF \E i \in 1..Len(all) : ok(i)
        THEN all[CHOOSE i \in 1..Len(all) :
                   /\ ok(i)
                   /\ \A j \in 1..Len(all) : ok(j) =>
                         RLe(tool_quality(all[j]), tool_quality(all[i]))
                   /\ \A j \in 1..(i - 1) : ok(j) =>
                         RLt(tool_quality(all[j]), tool_quality(all[i]))]
        ELSE None

\* Inventory.has_tool_type
has_tool_type(iv, tool_type) == get_best_tool(iv, tool_type) # None

-----------------------------------------------------------------------------
(* SpecInv: one Inventory under add and remove calls.                      *)

MaxInvCalls == 4

\* Inventory(capacity=10.0): a newborn's personal inventory.
InvCapacity == R(10, 1)

\* Items handed to add: create_item(type, quantity, quality).
AddInputs ==
    {create_item("raw_meat", R(4, 1), R(1, 2)),
     create_item("berries", R(39, 10), R(1, 2)),
     create_item("berries", One, R(4, 5)),
     create_item("berries", R(1, 200), R(1, 2)),
     create_item("timber", One, R(1, 2)),
     create_item("stone_axe", One, R(1, 2))}

\* Arguments of remove: (item_type, quantity).
RemoveInputs ==
    {<<"raw_meat", One>>, <<"berries", R(7799, 2000)>>, <<"berries", R(5, 1)>>,
     <<"timber", One>>, <<"stone_axe", One>>}

InitInv ==
    /\ inv = Inventory(InvCapacity)
    /\ invPre = Inventory(InvCapacity)
    /\ invCall = [op |-> "new"]
    /\ invCalls = 0

\* inv.add(item)
InvAdd ==
    /\ invCalls < MaxInvCalls
    /\ \E item \in AddInputs :
         \E r \in {Inventory_add(inv, item)} :
             /\ inv' = r.inv
             /\ invCall' = [op |-> "add", item |-> item, ret |-> r.ret]
    /\ invPre' = inv
    /\ invCalls' = invCalls + 1
    /\ UNCHANGED nonInvVars

\* inv.remove(item_type, quantity)
InvRemove ==
    /\ invCalls < MaxInvCalls
    /\ \E a \in RemoveInputs :
         \E r \in {Inventory_remove(inv, a[1], a[2])} :
             /\ inv' = r.inv
             /\ invCall' = [op |-> "remove", item_type |-> a[1],
                            quantity |-> a[2], ret |-> r.item]
    /\ invPre' = inv
    /\ invCalls' = invCalls + 1
    /\ UNCHANGED nonInvVars

NextInv == InvAdd \/ InvRemove

\* ---------------------------------------------------------------------
\* economy/trade.py: TradeSystem.execute_trade
\* ---------------------------------------------------------------------

\* A TradeOffer; the dicts offering and requesting are sequences of
\* <<item_type, quantity>> in insertion order, each item type at most once.
TradeOffer(offering, requesting, offerer_id, target_id) ==
    [offering |-> offering, requesting |-> requesting,
     offerer_id |-> offerer_id, target_id |-> target_id]

TradeRecord(day, offerer_id, target_id, items_offered, items_received) ==
    [day |-> day, offerer_id |-> offerer_id, target_id |-> target_id,
     items_offered |-> items_offered, items_received |-> items_received]

\* The tolerance of the verification loops: total_of(item) < qty * 0.99.
VerifyTolerance == R(99, 100)

\* One verification loop: no entry of which iv holds less than 99%.
RECURSIVE HoldsAll(_, _)
HoldsAll(iv, entries) ==
    IF entries = <<>> THEN TRUE
    ELSE IF RLt(total_of(iv, Head(entries)[1]),
                RMul(Head(entries)[2], VerifyTolerance))
         THEN FALSE
         ELSE HoldsAll(iv, Tail(entries))

\* One pass of a transfer loop: entry removed from src and what was
\* removed added to dst; the result of add is not looked at.
TransferStep(src, dst, entry) ==
    CHOOSE p \in
      { [src |-> r.inv,
         dst |-> IF r.item # None THEN Inventory_add(dst, r.item).inv ELSE dst] :
        r \in {Inventory_remove(src, entry[1], entry[2])} } : TRUE

\* One transfer loop over the entries of a dict.
RECURSIVE TransferLoop(_, _, _)
TransferLoop(src, dst, entries) ==
    IF entries = <<>> THEN [src |-> src, dst |-> dst]
    ELSE CHOOSE res \in
           { TransferLoop(p.src, p.dst, Tail(entries)) :
             p \in {TransferStep(src, dst, Head(entries))} } : TRUE

\* sum(d.values()) of an offer's dict
RECURSIVE SumValues(_)
SumValues(entries) ==
    IF entries = <<>> THEN Zero
    ELSE RAdd(Head(entries)[2], SumValues(Tail(entries)))

\* The state execute_trade reads and writes.
TradeState(oinv, tinv, trades, exchanged, daily) ==
    [offerer_inv |-> oinv, target_inv |-> tinv, total_trades |-> trades,
     total_items_exchanged |-> exchanged, daily_trades |-> daily]

\* The two transfer loops of execute_trade: [offerer_inv, target_inv].
TransferBoth(offer, oinv, tinv) ==
    CHOOSE res \in
      { [offerer_inv |-> take.dst, target_inv |-> take.src] :
        take \in { TransferLoop(give.dst, give.src, offer.requesting) :
                   give \in {TransferLoop(oinv, tinv, offer.offering)} } } : TRUE

\* The transfers and the bookkeeping of execute_trade, after verification.
TradeTransfers(offer, st, day) ==
    CHOOSE res \in
      { [ret |-> TRUE,
         st |-> TradeState(moved.offerer_inv, moved.target_inv,
                  st.total_trades + 1,
                  RAdd(st.total_items_exchanged,
                       RAdd(SumValues(offer.offering), SumValues(offer.requesting))),
                  Append(st.daily_trades,
                         TradeRecord(day, offer.offerer_id, offer.target_id,
                                     offer.offering, offer.requesting)))] :
        moved \in {TransferBoth(offer, st.offerer_inv, st.target_inv)} } : TRUE

\* execute_trade verifying the requested items only after the offered
\* items have been handed over.
execute_trade_LateCheck(offer, st, day) ==
    IF ~HoldsAll(st.offerer_inv, offer.offering) THEN [ret |-> FALSE, st |-> st]
    ELSE IF ~HoldsAll(st.target_inv, offer.requesting)
         THEN CHOOSE res \in
                {[ret |-> FALSE,
                  st |-> [st EXCEPT !.offerer_inv = give.src,
                                    !.target_inv = give.dst]] :
                 give \in {TransferLoop(st.offerer_inv, st.target_inv,
                                        offer.offering)}} : TRUE
         ELSE TradeTransfers(offer, st, day)

\* execute_trade(offer, offerer, target, offerer_inv, target_inv, day):
\* [ret, st].
execute_trade(offer, st, day) ==
    IF ~HoldsAll(st.offerer_inv, offer.offering) THEN [ret |-> FALSE, st |-> st]
    ELSE IF ~HoldsAll(st.target_inv, offer.requesting)
         THEN [ret |-> FALSE, st |-> st]
         ELSE TradeTransfers(offer, st, day)

\* ---------------------------------------------------------------------
\* SpecTrade: two families trade from their starting inventories
\* ---------------------------------------------------------------------

MaxTradeCalls == 3

\* STARTING_FOOD_PER_PERSON
StartingFoodPerPerson == 45

\* FAMILY_INVENTORY_CAPACITY
FamilyInventoryCapacity == 200

RECURSIVE AddAll(_, _)
AddAll(iv, items) ==
    IF items = <<>> THEN iv
    ELSE CHOOSE r \in {AddAll(iv1, Tail(items)) :
                        iv1 \in {Inventory_add(iv, Head(items)).inv}} : TRUE

\* A family inventory after _distribute_starting_tools and
\* _distribute_starting_food, for a family of n members.
StartingFamilyInventory(n) ==
    LET food_amount == R(StartingFoodPerPerson * n, 1)
    IN  AddAll(Inventory(R(FamilyInventoryCapacity, 1)),
          << create_item("stone_axe", One, R(1, 2)),
             create_item("stone_knife", R(2, 1), R(1, 2)),
             create_item("wooden_spear", One, R(1, 2)),
             create_item("fishing_rod", One, R(2, 5)),
             create_item("hoe", One, R(2, 5)),
             create_item("firewood", R(5, 1), R(1, 2)),
             create_item("grain", RMul(food_amount, R(1, 2)), R(1, 2)),
             create_item("dried_meat", RMul(food_amount, R(3, 10)), R(1, 2)),
             create_item("dried_fish", RMul(food_amount, R(1, 5)), R(1, 2)) >>)

\* Sizes of the two families.
FamilySizes == {2, 4}

TradeDays == {1}

TradeOffers ==
    { TradeOffer(<< <<"firewood", R(2, 1)>> >>, << <<"grain", R(3, 1)>> >>, 1, 2),
      TradeOffer(<< <<"grain", R(5, 1)>> >>, << <<"dried_meat", R(2, 1)>> >>, 1, 2),
      TradeOffer(<< <<"dried_fish", R(4, 1)>> >>, << <<"firewood", One>> >>, 1, 2),
      TradeOffer(<< <<"stone_knife", R(201, 100)>> >>,
                 << <<"dried_fish", One>> >>, 1, 2),
      TradeOffer(<< <<"timber", One>> >>, << <<"grain", One>> >>, 1, 2),
      TradeOffer(<< <<"firewood", One>>, <<"grain", R(2, 1)>> >>,
                 << <<"hoe", R(2, 1)>> >>, 1, 2) }

CurrentTradeState ==
    TradeState(offerer_inv, target_inv, total_trades, total_items_exchanged,
               daily_trades)

InitTrade ==
    /\ \E n \in FamilySizes : offerer_inv = StartingFamilyInventory(n)
    /\ \E n \in FamilySizes : target_inv = StartingFamilyInventory(n)
    /\ total_trades = 0
    /\ total_items_exchanged = Zero
    /\ daily_trades = <<>>
    /\ tradePre = TradeState(offerer_inv, target_inv, 0, Zero, <<>>)
    /\ tradeCall = [op |-> "new"]
    /\ tradeCalls = 0

\* trade_system.execute_trade(offer, villager, partner, villager_inv,
\* partner_inv, day)
ExecuteTrade ==
    /\ tradeCalls < MaxTradeCalls
    /\ \E offer \in TradeOffers, day \in TradeDays :
         \E r \in {execute_trade(offer, CurrentTradeState, day)} :
             /\ offerer_inv' = r.st.offerer_inv
             /\ target_inv' = r.st.target_inv
             /\ total_trades' = r.st.total_trades
             /\ total_items_exchanged' = r.st.total_items_exchanged
             /\ daily_trades' = r.st.daily_trades
             /\ tradeCall' = [op |-> "execute_trade", offer |-> offer,
                              day |-> day, ret |-> r.ret]
    /\ tradePre' = CurrentTradeState
    /\ tradeCalls' = tradeCalls + 1
    /\ UNCHANGED nonTradeVars

NextTrade == ExecuteTrade

\*SECTION-FAMILY
\* ---------------------------------------------------------------------
\* simulation/engine.py: SimulationEngine.tick, stages 1 to 3 and 14
\* ---------------------------------------------------------------------

\* The parameters WorldState.__init__ declares (decision.py).
WorldStateParams ==
    {"season", "weather_modifier", "resource_manager", "world_map",
     "family_inventories"}

\* The keywords _build_world_state passes to WorldState (engine.py).
BuildWorldStateKeywords ==
    {"season", "weather_modifier", "resource_manager", "world_map",
     "family_inventories", "rng"}

\* A call with a keyword the callee does not declare raises TypeError.
BuildWorldStateRaises == ~(BuildWorldStateKeywords \subseteq WorldStateParams)

\* A disease Event of check_random_events.
DiseaseEvent(day, affected, health_damage) ==
    [event_type |-> "disease", day |-> day,
     affected_villager_ids |-> affected, health_damage |-> health_damage]

\* apply_events for one disease event: each living affected villager
\* loses health (floored at 0) and health-need satisfaction.
ApplyDisease(vs, event) ==
    [id \in DOMAIN vs |->
       IF id \in event.affected_villager_ids /\ vs[id].is_alive
       THEN [vs[id] EXCEPT
               !.health = IF @ - event.health_damage < 0 THEN 0
                          ELSE @ - event.health_damage,
               !.health_need = Need_satisfy(@, R(-event.health_damage, 100))]
       ELSE vs[id]]

\* apply_events over the events of the day (disease events only: storm,
\* predator, pest and festival events touch shelters, food stores and
\* sentiment).
RECURSIVE apply_events(_, _)
apply_events(events, vs) ==
    IF events = <<>> THEN vs
    ELSE apply_events(Tail(events), ApplyDisease(vs, Head(events)))

MaxTicks == 4

VillagerIds == {1, 2}

\* The weathers Climate.advance_day draws from, in part.
Weathers == {"clear", "storm"}

AliveIds == {id \in VillagerIds : villagers[id].is_alive}

\* The events check_random_events can return for the day: none, or a
\* disease with a patient zero among the living and any of the others.
PossibleEvents(day, alive) ==
    {<<>>} \cup
    { <<DiseaseEvent(day, affected, hd)>> :
        affected \in (SUBSET alive) \ {{}}, hd \in HealthDamages }

InitEngine ==
    /\ clock_day = 0
    /\ current_weather = "clear"
    /\ villagers = [id \in VillagerIds |->
                      [is_alive |-> TRUE, health |-> 100,
                       health_need |-> [name |-> "health",
                                        satisfaction |-> InitialSatisfaction("health"),
                                        decay_rate |-> DecayRate("health")]]]
    /\ pending_events = <<>>
    /\ snapshots = <<>>
    /\ tickOutcome = "none"
    /\ tickPre = [day |-> 0, snapshots |-> <<>>, alive |-> VillagerIds]
    /\ ticks = 0

\* engine.tick(): returns at once when nobody is alive; otherwise stage 1
\* advances the clock and the weather, stage 2 draws and applies the
\* day's events, stage 3 calls _build_world_state, and a tick that gets
\* past it ends, in stage 14, with one snapshot for the day.
Tick ==
    /\ ticks < MaxTicks
    /\ ticks' = ticks + 1
    /\ tickPre' = [day |-> clock_day, snapshots |-> snapshots, alive |-> AliveIds]
    /\ IF AliveIds = {}
       THEN /\ tickOutcome' = "returned"
            /\ UNCHANGED <<clock_day, current_weather, villagers,
                           pending_events, snapshots>>
       ELSE /\ clock_day' = clock_day + 1
            /\ current_weather' \in Weathers
            /\ \E events \in PossibleEvents(clock_day + 1, AliveIds) :
                 /\ villagers' = apply_events(events, villagers)
                 /\ pending_events' = pending_events \o events
            /\ IF BuildWorldStateRaises
               THEN /\ tickOutcome' = "TypeError"
                    /\ snapshots' = snapshots
               ELSE /\ tickOutcome' = "completed"
                    /\ snapshots' = Append(snapshots, clock_day + 1)
    /\ UNCHANGED nonEngineVars

NextEngine == Tick

\* ---------------------------------------------------------------------
\* social/family.py: Family.distribute_food; Inventory.get_all_food
\* ---------------------------------------------------------------------

\* BASE_DAILY_FOOD_NEED (1.5)
BaseDailyFoodNeed == R(3, 2)

\* The hunger deficit at or below which a member is not fed (0.05).
FeedThreshold == R(1, 20)

\* The quantity at or below which the clean-up drops a stack (0.01).
CleanupThreshold == R(1, 100)

\* The stacks of the food item types, in food_items() order, each with
\* the place it has in the inventory.
RECURSIVE FoodStacksFrom(_, _)
FoodStacksFrom(iv, k) ==
    IF k > Len(food_items) THEN <<>>
    ELSE [i \in 1..Len(StacksOf(iv, food_items[k])) |->
            [item_type |-> food_items[k], i |-> i,
             item |-> StacksOf(iv, food_items[k])[i]]]
         \o FoodStacksFrom(iv, k + 1)

\* The sort key of get_all_food: days left before the item perishes.
PerishUrgency(item) ==
    Catalog(item.item_type).perish_days - item.days_since_created

\* e inserted into the sorted sequence q behind every entry whose key is
\* not larger (list.sort is stable).
InsertByUrgency(q, e) ==
    CHOOSE r \in
      { SubSeq(q, 1, n) \o <<e>> \o SubSeq(q, n + 1, Len(q)) :
        n \in { Cardinality({i \in 1..Len(q) :
                   PerishUrgency(q[i].item) <= PerishUrgency(e.item)}) } } : TRUE

RECURSIVE SortByUrgency(_, _, _)
SortByUrgency(q, j, sorted) ==
    IF j > Len(q) THEN sorted
    ELSE CHOOSE r \in { SortByUrgency(q, j + 1, next) :
                        next \in {InsertByUrgency(sorted, q[j])} } : TRUE

\* Inventory.get_all_food()
get_all_food(iv) ==
    CHOOSE r \in { SortByUrgency(q, 1, <<>>) : q \in {FoodStacksFrom(iv, 1)} } : TRUE

\* units_to_eat taking the whole stack, whatever is still needed.
UnitsToEat_WholeStack(food, needed, consumed) == food.quantity

\* units_to_eat = min((needed - consumed) / food_value, quantity)
UnitsToEat(food, needed, consumed) ==
    RMin(RDiv(RSub(needed, consumed), Item_food_value(food)), food.quantity)

\* One pass of the loop over foods, on a food item that is not skipped.
EatStep(foods, j, consumed, units_to_eat) ==
    [foods |-> [foods EXCEPT ![j].item.quantity = RSub(@, units_to_eat)],
     consumed |-> RAdd(consumed, RMul(units_to_eat, Item_food_value(foods[j].item)))]

\* The loop over foods for one member: [foods, consumed].
RECURSIVE EatLoop(_, _, _, _)
EatLoop(foods, j, needed, consumed) ==
    IF j > Len(foods) THEN [foods |-> foods, consumed |-> consumed]
    ELSE IF \/ RLe(foods[j].item.quantity, Zero)
            \/ RLe(Item_food_value(foods[j].item), Zero)
    THEN EatLoop(foods, j + 1, needed, consumed)
    ELSE CHOOSE r \in
           { IF RLe(needed, n.consumed) THEN n
             ELSE EatLoop(n.foods, j + 1, needed, n.consumed) :
             n \in { EatStep(foods, j, consumed, u) :
                     u \in {UnitsToEat(foods[j].item, needed, consumed)} } } : TRUE

\* The loop over member_ids: [members, foods].
RECURSIVE FeedLoop(_, _, _)
FeedLoop(members, m, foods) ==
    IF m > Len(members) THEN [members |-> members, foods |-> foods]
    ELSE IF \/ ~members[m].is_alive
            \/ RLe(RSub(One, members[m].hunger.satisfaction), FeedThreshold)
    THEN FeedLoop(members, m + 1, foods)
    ELSE CHOOSE r \in
           { FeedLoop([members EXCEPT ![m].hunger =
                         Need_satisfy(@, RDiv(e.consumed, BaseDailyFoodNeed))],
                      m + 1, e.foods) :
             e \in { EatLoop(foods, 1,
                             RMul(RSub(One, members[m].hunger.satisfaction),
                                  BaseDailyFoodNeed),
                             Zero) } } : TRUE

\* The inventory with the quantities the foods list ends with (the list
\* holds the inventory's own Item objects).
RECURSIVE WriteBack(_, _, _)
WriteBack(iv, foods, j) ==
    IF j > Len(foods) THEN iv
    ELSE CHOOSE r \in
           { WriteBack(next, foods, j + 1) :
             next \in { SetStacks(iv, foods[j].item_type,
                          [StacksOf(iv, foods[j].item_type) EXCEPT
                             ![foods[j].i] = foods[j].item]) } } : TRUE

\* The clean-up loop: every item type keeps its stacks of quantity above
\* 0.01 and is deleted when none is left.
CleanUp(iv) ==
    [iv EXCEPT !.items =
       SelectSeq([k \in 1..Len(iv.items) |->
                    [item_type |-> iv.items[k].item_type,
                     stacks |-> SelectSeq(iv.items[k].stacks,
                                  LAMBDA st : RLt(CleanupThreshold, st.quantity))]],
                 LAMBDA e : e.stacks # <<>>)]

\* Family.distribute_food(villagers_by_id): [inventory, members].
distribute_food(iv, members) ==
    CHOOSE r \in
      { IF foods = <<>> THEN [inventory |-> iv, members |-> members]
        ELSE CHOOSE res \in
               { [inventory |-> CleanUp(WriteBack(iv, f.foods, 1)),
                  members |-> f.members] :
                 f \in {FeedLoop(members, 1, foods)} } : TRUE :
        foods \in {get_all_food(iv)} } : TRUE

\* ---------------------------------------------------------------------
\* SpecFamily: a family gains food, its members grow hungry, die and are
\* fed
\* ---------------------------------------------------------------------

MaxFamCalls == 4

MemberCount == 2

\* Items the activities of the day add to the family inventory.
FamAddInputs ==
    { create_item("bread", R(53, 100), R(1, 2)),
      create_item("bread", R(21, 40), R(1, 2)),
      create_item("berries", R(93, 100), R(1, 2)),
      create_item("grain", R(3, 1), R(1, 2)),
      create_item("firewood", One, R(1, 2)) }

InitFam ==
    /\ fam_inventory = Inventory(R(FamilyInventoryCapacity, 1))
    /\ fam_members = [m \in 1..MemberCount |->
                        [is_alive |-> TRUE,
                         hunger |-> [name |-> "hunger",
                                     satisfaction |-> InitialSatisfaction("hunger"),
                                     decay_rate |-> DecayRate("hunger")]]]
    /\ famPre = [inventory |-> fam_inventory, members |-> fam_members]
    /\ famOp = "new"
    /\ famCalls = 0

\* fam.inventory.add(item)
FamAdd ==
    /\ famCalls < MaxFamCalls
    /\ \E item \in FamAddInputs : fam_inventory' = Inventory_add(fam_inventory, item).inv
    /\ famPre' = [inventory |-> fam_inventory, members |-> fam_members]
    /\ famOp' = "add"
    /\ famCalls' = famCalls + 1
    /\ UNCHANGED <<fam_members, nonFamVars>>

\* v.needs.daily_decay(...) of one living member: hunger decays with
\* modifier 1.0.
FamDecay ==
    /\ famCalls < MaxFamCalls
    /\ \E m \in 1..Len(fam_members) :
         /\ fam_members[m].is_alive
         /\ fam_members' = [fam_members EXCEPT ![m].hunger = Need_decay(@, One)]
    /\ famPre' = [inventory |-> fam_inventory, members |-> fam_members]
    /\ famOp' = "daily_decay"
    /\ famCalls' = famCalls + 1
    /\ UNCHANGED <<fam_inventory, nonFamVars>>

\* Villager.die() of one living member
FamDeath ==
    /\ famCalls < MaxFamCalls
    /\ \E m \in 1..Len(fam_members) :
         /\ fam_members[m].is_alive
         /\ fam_members' = [fam_members EXCEPT ![m].is_alive = FALSE]
    /\ famPre' = [inventory |-> fam_inventory, members |-> fam_members]
    /\ famOp' = "die"
    /\ famCalls' = famCalls + 1
    /\ UNCHANGED <<fam_inventory, nonFamVars>>

\* fam.distribute_food(villagers_by_id)
DistributeFood ==
    /\ famCalls < MaxFamCalls
    /\ \E r \in {distribute_food(fam_inventory, fam_members)} :
         /\ fam_inventory' = r.inventory
         /\ fam_members' = r.members
    /\ famPre' = [inventory |-> fam_inventory, members |-> fam_members]
    /\ famOp' = "distribute_food"
    /\ famCalls' = famCalls + 1
    /\ UNCHANGED nonFamVars

NextFam == FamAdd \/ FamDecay \/ FamDeath \/ DistributeFood

\* ---------------------------------------------------------------------
\* economy/activities.py, agents/decision.py: the activity catalog and
\* the decision engine's slot planner
\* ---------------------------------------------------------------------

\* ACTIVITIES in dictionary order; ACTIVITY_NEED_MAPPING has the same
\* keys in the same order.  required_season None is written <<>>,
\* resource_type None is written "".
ActivityOrder ==
    <<"gather_berries", "hunt_small_game", "hunt_large_game", "fishing",
      "chop_wood", "mine_stone", "mine_ore", "farm_plant",
      "farm_tend", "farm_harvest", "cook_food", "preserve_food",
      "craft_tools", "build_shelter", "build_road", "gather_herbs",
      "heal_villager", "rest", "socialize", "explore">>

ACTIVITIES(activity_name) ==
    CASE activity_name = "gather_berries" ->
        [name |-> "gather_berries", base_success_chance |-> R(4, 5), base_hours |-> R(3, 1),
         trait_weights |-> <<[trait |-> "endurance", weight |-> R(2, 5)],
                             [trait |-> "intelligence", weight |-> R(3, 10)],
                             [trait |-> "dexterity", weight |-> R(3, 10)]>>,
         required_tools |-> <<>>, required_season |-> <<>>,
         resource_type |-> "wild_plants", danger_level |-> R(1, 50),
         min_group_size |-> 1, fatigue_cost |-> R(1, 20)]
      [] activity_name = "hunt_small_game" ->
        [name |-> "hunt_small_game", base_success_chance |-> R(13, 20), base_hours |-> R(4, 1),
         trait_weights |-> <<[trait |-> "dexterity", weight |-> R(7, 20)],
                             [trait |-> "patience", weight |-> R(1, 4)],
                             [trait |-> "endurance", weight |-> R(1, 5)],
                             [trait |-> "intelligence", weight |-> R(1, 5)]>>,
         required_tools |-> <<"spear">>, required_season |-> <<>>,
         resource_type |-> "game_small", danger_level |-> R(1, 20),
         min_group_size |-> 1, fatigue_cost |-> R(2, 25)]
      [] activity_name = "hunt_large_game" ->
        [name |-> "hunt_large_game", base_success_chance |-> R(9, 20), base_hours |-> R(8, 1),
         trait_weights |-> <<[trait |-> "strength", weight |-> R(3, 10)],
                             [trait |-> "endurance", weight |-> R(1, 4)],
                             [trait |-> "risk_tolerance", weight |-> R(3, 20)],
                             [trait |-> "dexterity", weight |-> R(1, 5)],
                             [trait |-> "patience", weight |-> R(1, 10)]>>,
         required_tools |-> <<"spear">>, required_season |-> <<>>,
         resource_type |-> "game_large", danger_level |-> R(3, 20),
         min_group_size |-> 1, fatigue_cost |-> R(3, 25)]
      [] activity_name = "fishing" ->
        [name |-> "fishing", base_success_chance |-> R(7, 10), base_hours |-> R(4, 1),
         trait_weights |-> <<[trait |-> "patience", weight |-> R(2, 5)],
                             [trait |-> "dexterity", weight |-> R(3, 10)],
                             [trait |-> "intelligence", weight |-> R(3, 10)]>>,
         required_tools |-> <<"fishing">>, required_season |-> <<>>,
         resource_type |-> "fish", danger_level |-> R(1, 50),
         min_group_size |-> 1, fatigue_cost |-> R(1, 25)]
      [] activity_name = "chop_wood" ->
        [name |-> "chop_wood", base_success_chance |-> R(9, 10), base_hours |-> R(4, 1),
         trait_weights |-> <<[trait |-> "strength", weight |-> R(1, 2)],
                             [trait |-> "endurance", weight |-> R(7, 20)],
                             [trait |-> "dexterity", weight |-> R(3, 20)]>>,
         required_tools |-> <<"axe">>, required_season |-> <<>>,
         resource_type |-> "timber", danger_level |-> R(1, 20),
         min_group_size |-> 1, fatigue_cost |-> R(1, 10)]
      [] activity_name = "mine_stone" ->
        [name |-> "mine_stone", base_success_chance |-> R(4, 5), base_hours |-> R(6, 1),
         trait_weights |-> <<[trait |-> "strength", weight |-> R(9, 20)],
                             [trait |-> "endurance", weight |-> R(2, 5)],
                             [trait |-> "dexterity", weight |-> R(3, 20)]>>,
         required_tools |-> <<"mining">>, required_season |-> <<>>,
         resource_type |-> "stone", danger_level |-> R(2, 25),
         min_group_size |-> 1, fatigue_cost |-> R(3, 25)]
      [] activity_name = "mine_ore" ->
        [name |-> "mine_ore", base_success_chance |-> R(1, 2), base_hours |-> R(7, 1),
         trait_weights |-> <<[trait |-> "strength", weight |-> R(2, 5)],
                             [trait |-> "endurance", weight |-> R(7, 20)],
                             [trait |-> "intelligence", weight |-> R(3, 20)],
                             [trait |-> "dexterity", weight |-> R(1, 10)]>>,
         required_tools |-> <<"mining">>, required_season |-> <<>>,
         resource_type |-> "iron_ore", danger_level |-> R(3, 25),
         min_group_size |-> 1, fatigue_cost |-> R(7, 50)]
      [] activity_name = "farm_plant" ->
        [name |-> "farm_plant", base_success_chance |-> R(4, 5), base_hours |-> R(6, 1),
         trait_weights |-> <<[trait |-> "patience", weight |-> R(3, 10)],
                             [trait |-> "endurance", weight |-> R(3, 10)],
                             [trait |-> "strength", weight |-> R(1, 5)],
                             [trait |-> "intelligence", weight |-> R(1, 5)]>>,
         required_tools |-> <<"farming">>, required_season |-> <<"spring", "summer">>,
         resource_type |-> "farmland", danger_level |-> R(1, 100),
         min_group_size |-> 1, fatigue_cost |-> R(2, 25)]
      [] activity_name = "farm_tend" ->
        [name |-> "farm_tend", base_success_chance |-> R(9, 10), base_hours |-> R(4, 1),
         trait_weights |-> <<[trait |-> "patience", weight |-> R(3, 10)],
                             [trait |-> "conscientiousness", weight |-> R(3, 10)],
                             [trait |-> "endurance", weight |-> R(1, 5)],
                             [trait |-> "intelligence", weight |-> R(1, 5)]>>,
         required_tools |-> <<"farming">>, required_season |-> <<"spring", "summer">>,
         resource_type |-> "", danger_level |-> R(1, 100),
         min_group_size |-> 1, fatigue_cost |-> R(3, 50)]
      [] activity_name = "farm_harvest" ->
        [name |-> "farm_harvest", base_success_chance |-> R(19, 20), base_hours |-> R(8, 1),
         trait_weights |-> <<[trait |-> "endurance", weight |-> R(2, 5)],
                             [trait |-> "strength", weight |-> R(3, 10)],
                             [trait |-> "dexterity", weight |-> R(3, 10)]>>,
         required_tools |-> <<"farming">>, required_season |-> <<"summer", "autumn">>,
         resource_type |-> "", danger_level |-> R(1, 100),
         min_group_size |-> 1, fatigue_cost |-> R(1, 10)]
      [] activity_name = "cook_food" ->
        [name |-> "cook_food", base_success_chance |-> R(4, 5), base_hours |-> R(2, 1),
         trait_weights |-> <<[trait |-> "intelligence", weight |-> R(3, 10)],
                             [trait |-> "dexterity", weight |-> R(3, 10)],
                             [trait |-> "patience", weight |-> R(1, 5)],
                             [trait |-> "creativity", weight |-> R(1, 5)]>>,
         required_tools |-> <<"knife">>, required_season |-> <<>>,
         resource_type |-> "", danger_level |-> R(1, 50),
         min_group_size |-> 1, fatigue_cost |-> R(3, 100)]
      [] activity_name = "preserve_food" ->
        [name |-> "preserve_food", base_success_chance |-> R(3, 5), base_hours |-> R(4, 1),
         trait_weights |-> <<[trait |-> "intelligence", weight |-> R(3, 10)],
                             [trait |-> "patience", weight |-> R(2, 5)],
                             [trait |-> "conscientiousness", weight |-> R(3, 10)]>>,
         required_tools |-> <<"knife">>, required_season |-> <<>>,
         resource_type |-> "", danger_level |-> R(1, 100),
         min_group_size |-> 1, fatigue_cost |-> R(1, 25)]
      [] activity_name = "craft_tools" ->
        [name |-> "craft_tools", base_success_chance |-> R(13, 20), base_hours |-> R(5, 1),
         trait_weights |-> <<[trait |-> "dexterity", weight |-> R(7, 20)],
                             [trait |-> "intelligence", weight |-> R(7, 20)],
                             [trait |-> "patience", weight |-> R(1, 5)],
                             [trait |-> "creativity", weight |-> R(1, 10)]>>,
         required_tools |-> <<>>, required_season |-> <<>>,
         resource_type |-> "", danger_level |-> R(3, 100),
         min_group_size |-> 1, fatigue_cost |-> R(3, 50)]
      [] activity_name = "build_shelter" ->
        [name |-> "build_shelter", base_success_chance |-> R(7, 10), base_hours |-> R(8, 1),
         trait_weights |-> <<[trait |-> "strength", weight |-> R(7, 20)],
                             [trait |-> "intelligence", weight |-> R(1, 4)],
                             [trait |-> "dexterity", weight |-> R(1, 5)],
                             [trait |-> "endurance", weight |-> R(1, 5)]>>,
         required_tools |-> <<"axe", "construction">>, required_season |-> <<>>,
         resource_type |-> "", danger_level |-> R(3, 50),
         min_group_size |-> 1, fatigue_cost |-> R(3, 25)]
      [] activity_name = "build_road" ->
        [name |-> "build_road", base_success_chance |-> R(9, 10), base_hours |-> R(6, 1),
         trait_weights |-> <<[trait |-> "strength", weight |-> R(2, 5)],
                             [trait |-> "endurance", weight |-> R(2, 5)],
                             [trait |-> "conscientiousness", weight |-> R(1, 5)]>>,
         required_tools |-> <<"construction">>, required_season |-> <<>>,
         resource_type |-> "", danger_level |-> R(3, 100),
         min_group_size |-> 2, fatigue_cost |-> R(11, 100)]
      [] activity_name = "gather_herbs" ->
        [name |-> "gather_herbs", base_success_chance |-> R(2, 5), base_hours |-> R(4, 1),
         trait_weights |-> <<[trait |-> "intelligence", weight |-> R(2, 5)],
                             [trait |-> "patience", weight |-> R(3, 10)],
                             [trait |-> "dexterity", weight |-> R(3, 10)]>>,
         required_tools |-> <<>>, required_season |-> <<>>,
         resource_type |-> "medicinal_herbs", danger_level |-> R(1, 50),
         min_group_size |-> 1, fatigue_cost |-> R(1, 25)]
      [] activity_name = "heal_villager" ->
        [name |-> "heal_villager", base_success_chance |-> R(2, 5), base_hours |-> R(3, 1),
         trait_weights |-> <<[trait |-> "intelligence", weight |-> R(2, 5)],
                             [trait |-> "empathy", weight |-> R(3, 10)],
                             [trait |-> "dexterity", weight |-> R(1, 5)],
                             [trait |-> "patience", weight |-> R(1, 10)]>>,
         required_tools |-> <<>>, required_season |-> <<>>,
         resource_type |-> "", danger_level |-> R(1, 100),
         min_group_size |-> 1, fatigue_cost |-> R(1, 25)]
      [] activity_name = "rest" ->
        [name |-> "rest", base_success_chance |-> R(1, 1), base_hours |-> R(0, 1),
         trait_weights |-> <<>>,
         required_tools |-> <<>>, required_season |-> <<>>,
         resource_type |-> "", danger_level |-> R(0, 1),
         min_group_size |-> 1, fatigue_cost |-> R(-3, 10)]
      [] activity_name = "socialize" ->
        [name |-> "socialize", base_success_chance |-> R(1, 1), base_hours |-> R(4, 1),
         trait_weights |-> <<[trait |-> "sociability", weight |-> R(1, 2)],
                             [trait |-> "empathy", weight |-> R(3, 10)],
                             [trait |-> "intelligence", weight |-> R(1, 5)]>>,
         required_tools |-> <<>>, required_season |-> <<>>,
         resource_type |-> "", danger_level |-> R(0, 1),
         min_group_size |-> 2, fatigue_cost |-> R(1, 50)]
      [] activity_name = "explore" ->
        [name |-> "explore", base_success_chance |-> R(3, 10), base_hours |-> R(8, 1),
         trait_weights |-> <<[trait |-> "risk_tolerance", weight |-> R(3, 10)],
                             [trait |-> "endurance", weight |-> R(3, 10)],
                             [trait |-> "intelligence", weight |-> R(1, 5)],
                             [trait |-> "dexterity", weight |-> R(1, 5)]>>,
         required_tools |-> <<>>, required_season |-> <<>>,
         resource_type |-> "", danger_level |-> R(1, 10),
         min_group_size |-> 1, fatigue_cost |-> R(1, 10)]

ACTIVITY_NEED_MAPPING(activity_name) ==
    CASE activity_name = "gather_berries" -> <<"hunger">>
      [] activity_name = "hunt_small_game" -> <<"hunger">>
      [] activity_name = "hunt_large_game" -> <<"hunger">>
      [] activity_name = "fishing" -> <<"hunger">>
      [] activity_name = "chop_wood" -> <<"warmth", "shelter">>
      [] activity_name = "mine_stone" -> <<"shelter">>
      [] activity_name = "mine_ore" -> <<"purpose">>
      [] activity_name = "farm_plant" -> <<"hunger">>
      [] activity_name = "farm_tend" -> <<"hunger">>
      [] activity_name = "farm_harvest" -> <<"hunger">>
      [] activity_name = "cook_food" -> <<"hunger", "comfort">>
      [] activity_name = "preserve_food" -> <<"hunger">>
      [] activity_name = "craft_tools" -> <<"purpose", "safety">>
      [] activity_name = "build_shelter" -> <<"shelter", "warmth", "safety">>
      [] activity_name = "build_road" -> <<"purpose">>
      [] activity_name = "gather_herbs" -> <<"health">>
      [] activity_name = "heal_villager" -> <<"health">>
      [] activity_name = "rest" -> <<"rest">>
      [] activity_name = "socialize" -> <<"social">>
      [] activity_name = "explore" -> <<"purpose", "safety">>

\* (exp(3 d) - 1) / (exp(3) - 1) at d = k/20, k = 0..20, in thousandths.
ExpRampTable ==
    <<0, 8, 18, 30, 43, 59, 76, 97, 122, 150, 182, 220, 265, 316, 375, 445, 525, 619, 727, 853, 1000>>

\* NeedSystem.needs in dictionary order.
\* Scores are computed in fixed point: an integer counts thousandths, and
\* a product or quotient is cut to the thousandth below.  (The products
\* of a score do not fit TLC's integers as exact fractions.)
Milli(r) == (r[1] * 1000) \div r[2]
MulM(a, b) == (a * b) \div 1000
DivM(a, b) == (a * 1000) \div b

RECURSIVE SumMFrom(_, _)
SumMFrom(q, i) == IF i > Len(q) THEN 0 ELSE q[i] + SumMFrom(q, i + 1)
SumM(q) == CHOOSE r \in {SumMFrom(s, 1) : s \in {q}} : TRUE

NeedOrder ==
    <<"hunger", "thirst", "rest", "warmth", "shelter", "safety", "health",
      "social", "purpose", "comfort">>

NEED_WEIGHTS(name) ==
    CASE name = "hunger"  -> 10
      [] name = "thirst"  -> 12
      [] name = "rest"    -> 8
      [] name = "warmth"  -> 7
      [] name = "shelter" -> 5
      [] name = "safety"  -> 6
      [] name = "health"  -> 9
      [] name = "social"  -> 3
      [] name = "purpose" -> 2
      [] name = "comfort" -> 1

\* The urgency_curve NeedSystem.__init__ gives each need.
UrgencyCurve(name) ==
    IF name \in {"hunger", "thirst", "rest", "warmth", "health"}
    THEN "exponential" ELSE "linear"

SURVIVAL_CRITICAL_THRESHOLD == R(3, 20)
\* In thousandths.
SATISFICE_THRESHOLD == 600
FATIGUE_STOP_THRESHOLD == R(9, 10)
\* In thousandths.
HABIT_INERTIA_BONUS == 50

\* needs.py: the names of the survival-critical needs.
SURVIVAL_NEEDS == {"hunger", "thirst", "rest", "health", "warmth"}

\* (exp(3 d) - 1) / (exp(3) - 1) for a deficit d in [0, 1], in
\* thousandths: the table value at d = k/20, linear between neighbours.
ExpRamp(deficit) ==
    CHOOSE r \in
      { IF k >= 20 THEN ExpRampTable[21]
        ELSE ExpRampTable[k + 1]
             + ((ExpRampTable[k + 2] - ExpRampTable[k + 1])
                * (deficit[1] * 20 - k * deficit[2])) \div deficit[2] :
        k \in {(deficit[1] * 20) \div deficit[2]} } : TRUE

\* Need.urgency, in thousandths.
Need_urgency(n) ==
    IF UrgencyCurve(n.name) = "exponential"
    THEN NEED_WEIGHTS(n.name) * ExpRamp(RSub(One, n.satisfaction))
    ELSE NEED_WEIGHTS(n.name) * Milli(RSub(One, n.satisfaction))

\* NeedSystem.__init__
NeedSystem ==
    [name \in NeedNames |->
        [name |-> name, satisfaction |-> InitialSatisfaction(name),
         decay_rate |-> DecayRate(name)]]

\* NeedSystem.get_urgency_vector
get_urgency_vector(needs) == [name \in NeedNames |-> Need_urgency(needs[name])]

\* Need.is_critical
is_critical(n) == RLt(n.satisfaction, SURVIVAL_CRITICAL_THRESHOLD)

\* NeedSystem.survival_critical
survival_critical(needs) == \E name \in SURVIVAL_NEEDS : is_critical(needs[name])

\* The modifier NeedSystem.daily_decay applies to one need.
DailyDecayModifier(name, warmth_modifier, shelter_quality, social, productive) ==
    CASE name = "warmth" ->
           RMul(warmth_modifier,
                RMax(R(3, 10), RSub(One, RMul(shelter_quality, R(7, 10)))))
      [] name = "shelter" -> RMax(R(1, 10), RSub(One, shelter_quality))
      [] name = "social" -> IF social THEN Zero ELSE One
      [] name = "purpose" -> IF productive THEN Zero ELSE One
      [] OTHER -> One

\* NeedSystem.daily_decay(warmth_modifier, shelter_quality,
\* had_social_interaction, was_productive): every need but health decays
\* by one day.
NeedSystem_daily_decay(needs, warmth_modifier, shelter_quality, social, productive) ==
    [name \in NeedNames |->
        IF name = "health" THEN needs[name]
        ELSE Need_decay(needs[name],
                        DailyDecayModifier(name, warmth_modifier, shelter_quality,
                                           social, productive))]

InSeq(x, s) == \E i \in 1..Len(s) : s[i] = x

\* ActivityPlan: target_resource_id None is written "None".
ActivityPlan(activity_name, target_resource_id, planned_hours) ==
    [activity_name |-> activity_name,
     target_resource_id |-> target_resource_id,
     planned_hours |-> planned_hours]

\* WorldState as the planner reads it: find_resource answers from
\* resources, resource type -> [found, travel_hours]; the villager's
\* family inventory.
WorldState(season, weather_modifier, resources, family_inventory) ==
    [season |-> season, weather_modifier |-> weather_modifier,
     resources |-> resources, family_inventory |-> family_inventory]

\* Villager._health_modifier, in thousandths
health_modifier(v) == Milli(RDiv(v.health, R(100, 1)))

\* Villager._fatigue_modifier, in thousandths
fatigue_modifier(v) == Milli(RMax(R(3, 10), RSub(One, RMul(v.fatigue, R(1, 2)))))

\* Villager.get_effective_trait, in thousandths, for a villager aged over
\* 20 and at most 40, whose age modifiers are both 1.0.
get_effective_trait(v, trait_name) ==
    IF trait_name \in {"strength", "endurance", "dexterity"}
    THEN MulM(MulM(v.traits[trait_name] * 1000, health_modifier(v)),
              fatigue_modifier(v))
    ELSE v.traits[trait_name] * 1000

\* weighted_trait_score, in thousandths
weighted_trait_score(v, trait_weights) ==
    IF trait_weights = <<>> THEN 1000
    ELSE CHOOSE r \in
           { IF weight_total = 0 THEN 1000
             ELSE 500 + DivM(SumM([i \in 1..Len(trait_weights) |->
                               MulM(get_effective_trait(v, trait_weights[i].trait)
                                      \div 100,
                                    Milli(trait_weights[i].weight))]),
                             weight_total) :
             weight_total \in
               {SumM([i \in 1..Len(trait_weights) |->
                        Milli(trait_weights[i].weight)])} } : TRUE

\* Memory.skill_level of a villager whose skill_experience is empty:
\* 100 * (1 - exp(0)).
skill_level(v) == Zero

\* Activity.calculate_success with group_size 1, in thousandths.
ClampM(lo, x, hi) == IF x < lo THEN lo ELSE IF x > hi THEN hi ELSE x

calculate_success(v, activity, tq, weather_modifier) ==
    ClampM(50,
      MulM(MulM(MulM(MulM(Milli(activity.base_success_chance),
                          weighted_trait_score(v, activity.trait_weights)),
                     Milli(RAdd(R(1, 2),
                                RMul(R(3, 2), RDiv(skill_level(v), R(100, 1)))))),
                Milli(RAdd(R(1, 2), tq))),
           Milli(weather_modifier)),
      950)

\* _survival_needs: the survival needs of the urgency vector, most
\* urgent first.  sorted(..., reverse=True) is stable.
RECURSIVE InsertDesc(_, _, _)
InsertDesc(q, e, urgencies) ==
    IF q = <<>> THEN <<e>>
    ELSE IF urgencies[Head(q)] < urgencies[e] THEN <<e>> \o q
    ELSE <<Head(q)>> \o InsertDesc(Tail(q), e, urgencies)

RECURSIVE SortDesc(_, _, _, _)
SortDesc(names, j, sorted, urgencies) ==
    IF j > Len(names) THEN sorted
    ELSE SortDesc(names, j + 1, InsertDesc(sorted, names[j], urgencies), urgencies)

survival_needs_Inverted(urgencies) ==
    SortDesc(SelectSeq(NeedOrder,
               LAMBDA n : n \notin {"hunger", "thirst", "rest", "health", "warmth"}),
             1, <<>>, urgencies)

survival_needs(urgencies) ==
    SortDesc(SelectSeq(NeedOrder,
               LAMBDA n : n \in {"hunger", "thirst", "rest", "health", "warmth"}),
             1, <<>>, urgencies)

\* _activities_for_need
activities_for_need(need_name) ==
    SelectSeq(ActivityOrder, LAMBDA a : InSeq(need_name, ACTIVITY_NEED_MAPPING(a)))

\* _evaluate_activity, the tool search over personal then family
\* inventory: [found_tool, tool_quality].
BestOfBoth(inv0, family_inv, tool_type) ==
    CHOOSE r \in { IF tool # None THEN tool ELSE get_best_tool(family_inv, tool_type) :
                   tool \in {get_best_tool(inv0, tool_type)} } : TRUE

FindTool_AnyTool(inv0, family_inv, required_tools, i) ==
    [found_tool |-> TRUE, tool_quality |-> One]

RECURSIVE FindTool(_, _, _, _)
FindTool(inv0, family_inv, required_tools, i) ==
    IF i > Len(required_tools) THEN [found_tool |-> FALSE, tool_quality |-> One]
    ELSE CHOOSE r \in
           { IF tool # None
             THEN [found_tool |-> TRUE, tool_quality |-> tool_quality(tool)]
             ELSE FindTool(inv0, family_inv, required_tools, i + 1) :
             tool \in {BestOfBoth(inv0, family_inv, required_tools[i])} } : TRUE

\* _apply_personality_biases, in thousandths
TraitBias(value, scale) == ((value - 50) * scale) \div 100

apply_personality_biases(v, activity, score) ==
    score + SumM(
      << IF activity.name \in {"fishing", "farm_tend", "farm_plant"}
         THEN TraitBias(v.traits["patience"], 150) ELSE 0,
         IF activity.name \in {"hunt_large_game", "mine_ore", "craft_tools"}
         THEN TraitBias(v.traits["ambition"], 150) ELSE 0,
         IF activity.min_group_size > 1
         THEN TraitBias(v.traits["sociability"], 100) ELSE 0,
         IF activity.name \in {"craft_tools", "cook_food"}
         THEN TraitBias(v.traits["creativity"], 100) ELSE 0,
         IF activity.name \in {"farm_plant", "farm_tend", "farm_harvest"}
         THEN TraitBias(v.traits["conscientiousness"], 100) ELSE 0,
         IF RLt(R(1, 20), activity.danger_level)
         THEN TraitBias(v.traits["risk_tolerance"], 100) ELSE 0,
         IF RLe(activity.base_hours, R(3, 1))
         THEN ((100 - v.traits["patience"]) * 80) \div 100 ELSE 0 >>)

\* _evaluate_activity, the score in thousandths: need alignment times
\* success chance, less the risk penalty, plus time efficiency, biases,
\* habit and noise.
NeedAlignment(activity_name, urgencies) ==
    SumM([i \in 1..Len(ACTIVITY_NEED_MAPPING(activity_name)) |->
            MulM(urgencies[ACTIVITY_NEED_MAPPING(activity_name)[i]], 300)])

RawScore(v, activity, ws, urgencies, u, tq, travel_hours) ==
    apply_personality_biases(v, activity,
        MulM(NeedAlignment(activity.name, urgencies),
             calculate_success(v, activity, tq, ws.weather_modifier))
        - MulM(Milli(activity.danger_level), 1500 - v.traits["risk_tolerance"] * 10)
        + (IF RLt(Zero, activity.base_hours)
           THEN MulM(Milli(RDiv(One, RAdd(activity.base_hours,
                                          RMul(travel_hours, R(2, 1))))),
                     100)
           ELSE 0))
    + (IF v.last_activity = activity.name THEN HABIT_INERTIA_BONUS ELSE 0)
    + MulM(u, 1000 - v.traits["intelligence"] * 10)

\* PlannedHours with an activity of no set length planned for one hour.
PlannedHours_OneHourByDefault(activity, remaining_hours, travel_hours) ==
    CHOOSE r \in
      { IF RLt(Zero, travel_hours)
        THEN RMin(h, RSub(remaining_hours, RMul(travel_hours, R(2, 1))))
        ELSE h :
        h \in {RMin(IF activity.base_hours = Zero THEN One
                    ELSE activity.base_hours,
                    remaining_hours)} } : TRUE

\* _evaluate_activity, planned_hours before the floor of 1.0.
PlannedHours(activity, remaining_hours, travel_hours) ==
    CHOOSE r \in
      { IF RLt(Zero, travel_hours)
        THEN RMin(h, RSub(remaining_hours, RMul(travel_hours, R(2, 1))))
        ELSE h :
        h \in {RMin(IF activity.base_hours = Zero THEN remaining_hours
                    ELSE activity.base_hours,
                    remaining_hours)} } : TRUE

Infeasible == [feasible |-> FALSE, score |-> 0,
               plan |-> ActivityPlan("None", "None", Zero)]

ScoredPlan(v, activity, ws, remaining_hours, urgencies, u, tq, node_id, travel_hours) ==
    [feasible |-> TRUE,
     score |-> ClampM(0, RawScore(v, activity, ws, urgencies, u, tq, travel_hours),
                      1000000),
     plan |-> ActivityPlan(activity.name, node_id,
                RMax(One, PlannedHours(activity, remaining_hours, travel_hours)))]

\* _evaluate_activity from the resource search on.
EvaluateWithTool(v, activity, ws, remaining_hours, urgencies, u, tool) ==
    IF ~tool.found_tool THEN Infeasible
    ELSE IF activity.resource_type = ""
    THEN ScoredPlan(v, activity, ws, remaining_hours, urgencies, u,
                    tool.tool_quality, "None", Zero)
    ELSE IF ~ws.resources[activity.resource_type].found THEN Infeasible
    ELSE IF RLt(remaining_hours,
                RAdd(RMul(ws.resources[activity.resource_type].travel_hours, R(2, 1)),
                     activity.base_hours))
    THEN Infeasible
    ELSE ScoredPlan(v, activity, ws, remaining_hours, urgencies, u,
                    tool.tool_quality, activity.resource_type,
                    ws.resources[activity.resource_type].travel_hours)

\* DecisionEngine._evaluate_activity; u is the value rng.uniform(-0.1,
\* 0.1) returns if the evaluation gets as far as drawing it.
evaluate_activity(v, activity, ws, remaining_hours, urgencies, u) ==
    IF RLt(remaining_hours, activity.base_hours) /\ RLt(Zero, activity.base_hours)
    THEN Infeasible
    ELSE IF activity.required_season # <<>>
            /\ ~InSeq(ws.season, activity.required_season)
    THEN Infeasible
    ELSE CHOOSE r \in
           { EvaluateWithTool(v, activity, ws, remaining_hours, urgencies, u, tool) :
             tool \in { IF activity.required_tools # <<>>
                        THEN FindTool(v.personal_inventory, ws.family_inventory,
                                      activity.required_tools, 1)
                        ELSE [found_tool |-> TRUE, tool_quality |-> One] } } : TRUE

\* The stream of values rng.uniform(-0.1, 0.1) returns, from position
\* seed on, in thousandths.
UniformStream == <<-100, 0, 90>>
Uniform(seed, draws) == UniformStream[((seed + draws) % Len(UniformStream)) + 1]

\* _pick_next_activity, the candidate loops: the activities of the first
\* five target needs, evaluated in order; every evaluation that reaches
\* the noise term takes one value from the stream.
RECURSIVE ActivitiesFor(_, _)
ActivitiesFor(target_needs, k) ==
    IF k > Len(target_needs) \/ k > 5 THEN <<>>
    ELSE activities_for_need(target_needs[k]) \o ActivitiesFor(target_needs, k + 1)

RECURSIVE EvaluateFrom(_, _, _, _, _, _, _, _, _)
EvaluateFrom(v, ws, remaining_hours, urgencies, names, i, draws, seed, candidates) ==
    IF i > Len(names) THEN [candidates |-> candidates, draws |-> draws]
    ELSE CHOOSE r \in
           { IF e.feasible
             THEN EvaluateFrom(v, ws, remaining_hours, urgencies, names, i + 1,
                               draws + 1, seed,
                               Append(candidates, [score |-> e.score, plan |-> e.plan]))
             ELSE EvaluateFrom(v, ws, remaining_hours, urgencies, names, i + 1,
                               draws, seed, candidates) :
             e \in {evaluate_activity(v, ACTIVITIES(names[i]), ws, remaining_hours,
                                      urgencies, Uniform(seed, draws))} } : TRUE

\* candidates.sort(key=score, reverse=True), a stable sort.
RECURSIVE InsertByScore(_, _)
InsertByScore(q, c) ==
    IF q = <<>> THEN <<c>>
    ELSE IF Head(q).score < c.score THEN <<c>> \o q
    ELSE <<Head(q)>> \o InsertByScore(Tail(q), c)

RECURSIVE SortByScore(_, _, _)
SortByScore(candidates, j, sorted) ==
    IF j > Len(candidates) THEN sorted
    ELSE SortByScore(candidates, j + 1, InsertByScore(sorted, candidates[j]))

\* A loop that settles for the last candidate that reaches the
\* ambition-adjusted threshold.
Satisfice_Last(sorted, k, ambition) ==
    IF \E j \in k..Len(sorted) : sorted[j].score >= MulM(SATISFICE_THRESHOLD, 700 + 6 * ambition)
    THEN sorted[CHOOSE j \in k..Len(sorted) : /\ sorted[j].score >= MulM(SATISFICE_THRESHOLD, 700 + 6 * ambition)
                                              /\ \A i \in (j + 1)..Len(sorted) : sorted[i].score < MulM(SATISFICE_THRESHOLD, 700 + 6 * ambition)].plan
    ELSE sorted[1].plan

\* The satisficing loop: the first candidate whose score reaches the
\* threshold or the ambition-adjusted threshold, else the best one.
RECURSIVE Satisfice(_, _, _)
Satisfice(sorted, k, ambition) ==
    IF k > Len(sorted) THEN sorted[1].plan
    ELSE IF \/ sorted[k].score >= SATISFICE_THRESHOLD
            \/ sorted[k].score >= MulM(SATISFICE_THRESHOLD, 700 + 6 * ambition)
    THEN sorted[k].plan
    ELSE Satisfice(sorted, k + 1, ambition)

\* The target needs: the survival needs in survival mode, else every need,
\* most urgent first.
TargetNeeds(needs, urgencies) ==
    IF survival_critical(needs) THEN survival_needs(urgencies)
    ELSE SortDesc(NeedOrder, 1, <<>>, urgencies)

CandidatesFor(v, ws, remaining_hours, urgencies, draws, seed) ==
    EvaluateFrom(v, ws, remaining_hours, urgencies,
                 ActivitiesFor(TargetNeeds(v.needs, urgencies), 1),
                 1, draws, seed, <<>>)

\* DecisionEngine._pick_next_activity: [found, plan], with the number of
\* values drawn so far and the names of the candidates it weighed.
pick_next_activity(v, ws, remaining_hours, draws, seed) ==
    CHOOSE r \in
      { [found |-> c.candidates # <<>>, scored |-> c.candidates,
         plan |-> IF c.candidates = <<>> THEN ActivityPlan("None", "None", Zero)
                  ELSE Satisfice(SortByScore(c.candidates, 1, <<>>), 1,
                                 v.traits["ambition"]),
         draws |-> c.draws,
         candidates |-> [i \in 1..Len(c.candidates) |->
                           c.candidates[i].plan.activity_name]] :
        c \in { CandidatesFor(v, ws, remaining_hours, urgencies, draws, seed) :
                urgencies \in {get_urgency_vector(v.needs)} } } : TRUE

\* DecisionEngine.plan_day, the while loop.  slots collects the candidate
\* names of every slot.
RECURSIVE PlanLoop(_, _, _, _, _, _, _)
RECURSIVE AfterPick(_, _, _, _, _, _, _)
AfterPick(v, ws, remaining, sched, slots, seed, p) ==
    IF ~p.found
    THEN [schedule |-> Append(sched, ActivityPlan("rest", "None", remaining)),
          slots |-> Append(slots, p.candidates)]
    ELSE IF RLt(FATIGUE_STOP_THRESHOLD,
                RAdd(v.fatigue, RMul(ACTIVITIES(p.plan.activity_name).fatigue_cost,
                                     p.plan.planned_hours)))
    THEN [schedule |-> Append(sched, p.plan),
          slots |-> Append(slots, p.candidates)]
    ELSE PlanLoop(v, ws, RSub(remaining, p.plan.planned_hours),
                  Append(sched, p.plan), Append(slots, p.candidates),
                  p.draws, seed)

PlanLoop(v, ws, remaining, sched, slots, draws, seed) ==
    IF ~RLt(One, remaining) THEN [schedule |-> sched, slots |-> slots]
    ELSE CHOOSE r \in
           { AfterPick(v, ws, remaining, sched, slots, seed, p) :
             p \in {pick_next_activity(v, ws, remaining, draws, seed)} } : TRUE

\* DecisionEngine.plan_day: the schedule, and memory.last_activity as it
\* leaves it.
plan_day(v, ws, available_hours, seed) ==
    CHOOSE r \in
      { [schedule |-> l.schedule, slots |-> l.slots,
         last_activity |-> IF l.schedule # <<>> THEN l.schedule[1].activity_name
                           ELSE v.last_activity] :
        l \in {PlanLoop(v, ws, available_hours, <<>>, <<>>, 0, seed)} } : TRUE

\* ---------------------------------------------------------------------
\* SpecPlan: a villager's needs decay, its family's tools are traded away
\* and received, and the engine plans its day
\* ---------------------------------------------------------------------

MaxPlanCalls == 2

TraitNames ==
    {"strength", "endurance", "dexterity", "intelligence", "patience",
     "risk_tolerance", "sociability", "ambition", "conscientiousness",
     "empathy", "creativity"}

\* PersonalityTraits of the villagers planned for: every trait at one
\* level.
TraitLevels == {50, 80}

\* The needs after a day on which the villager ate three tenths of the
\* daily food need, drank at the water and took a rest: satisfy("hunger",
\* 0.3), satisfy("thirst", 0.4) and satisfy("rest", 0.4), and the night's
\* daily_decay.
NeedsAfterDay(needs) ==
    NeedSystem_daily_decay(
        [needs EXCEPT !["hunger"] = Need_satisfy(@, R(3, 10)),
                      !["thirst"] = Need_satisfy(@, R(2, 5)),
                      !["rest"] = Need_satisfy(@, R(2, 5))],
        One, Zero, FALSE, FALSE)

\* The needs at initialisation, those of a villager whose hunger stands at
\* 0.05, and those on the morning of the fifth day.
NeedProfiles ==
    { NeedSystem, [NeedSystem EXCEPT !["hunger"].satisfaction = R(1, 20)],
      NeedsAfterDay(NeedsAfterDay(NeedsAfterDay(NeedsAfterDay(NeedSystem)))) }

\* The family inventory after initialize(), and that of a family formed
\* later, which starts empty.
FamilyInventories ==
    { StartingFamilyInventory(2), Inventory(R(FamilyInventoryCapacity, 1)) }

ResourceTypes ==
    {"timber", "game_small", "game_large", "fish", "stone", "clay", "iron_ore",
     "wild_plants", "medicinal_herbs", "farmland", "fresh_water"}

\* What find_resource and estimate_travel answer: every resource two
\* cells away, or none with any abundance left.
ResourceMaps ==
    { [t \in ResourceTypes |-> [found |-> TRUE, travel_hours |-> R(2, 8)]],
      [t \in ResourceTypes |-> [found |-> FALSE, travel_hours |-> Zero]] }

\* The season, the daylight hours and the outdoor work modifier of the
\* day planned, and the position of the random stream on that day.
PlanDays ==
    { [season |-> "spring", daylight |-> R(13, 1), weather_modifier |-> One,
       seed |-> 0],
      [season |-> "autumn", daylight |-> R(12, 1), weather_modifier |-> R(1, 2),
       seed |-> 1] }

\* The tools the family trades.  A tool a trade brings in is the new Item
\* Inventory.remove hands over, whose durabilities are the dataclass
\* defaults.
TradedTools == {"wooden_spear", "hoe"}

ToolTypesHeld(iv) ==
    {iv.items[k].item_type : k \in {j \in 1..Len(iv.items) :
                                      Catalog(iv.items[j].item_type).tool_type # ""}}

InitPlan ==
    /\ \E needs \in NeedProfiles, level \in TraitLevels :
          plan_villager =
            [needs |-> needs, traits |-> [t \in TraitNames |-> level],
             health |-> R(100, 1), fatigue |-> Zero, last_activity |-> "None",
             personal_inventory |-> Inventory(R(30, 1))]
    /\ plan_family_inventory \in FamilyInventories
    /\ schedule = <<>>
    /\ slot_candidates = <<>>
    /\ planPre = [villager |-> plan_villager,
                  family_inventory |-> plan_family_inventory]
    /\ planOp = "new"
    /\ planCalls = 0

\* v.needs.daily_decay(...) with the default arguments
PlanDailyDecay ==
    /\ planCalls < MaxPlanCalls
    /\ plan_villager' =
         [plan_villager EXCEPT
            !.needs = NeedSystem_daily_decay(@, One, Zero, FALSE, FALSE)]
    /\ planPre' = [villager |-> plan_villager,
                   family_inventory |-> plan_family_inventory]
    /\ planOp' = "daily_decay"
    /\ planCalls' = planCalls + 1
    /\ UNCHANGED <<plan_family_inventory, schedule, slot_candidates, nonPlanVars>>

\* execute_trade with the family as offerer: offerer_inv.remove(tool, all)
PlanToolTradedAway ==
    /\ planCalls < MaxPlanCalls
    /\ \E t \in ToolTypesHeld(plan_family_inventory) \cap TradedTools :
         plan_family_inventory' =
           Inventory_remove(plan_family_inventory, t,
                            total_of(plan_family_inventory, t)).inv
    /\ planPre' = [villager |-> plan_villager,
                   family_inventory |-> plan_family_inventory]
    /\ planOp' = "tool_traded_away"
    /\ planCalls' = planCalls + 1
    /\ UNCHANGED <<plan_villager, schedule, slot_candidates, nonPlanVars>>

\* execute_trade with the family as target: target_inv.add(removed)
PlanToolReceived ==
    /\ planCalls < MaxPlanCalls
    /\ \E t \in TradedTools :
         plan_family_inventory' =
           Inventory_add(plan_family_inventory, Item(t, One, R(1, 2))).inv
    /\ planPre' = [villager |-> plan_villager,
                   family_inventory |-> plan_family_inventory]
    /\ planOp' = "tool_received"
    /\ planCalls' = planCalls + 1
    /\ UNCHANGED <<plan_villager, schedule, slot_candidates, nonPlanVars>>

\* decision_engine.plan_day(v, world_state, daylight)
PlanDay ==
    /\ planCalls < MaxPlanCalls
    /\ \E day \in PlanDays, resources \in ResourceMaps :
         \E r \in {plan_day(plan_villager,
                            WorldState(day.season, day.weather_modifier, resources,
                                       plan_family_inventory),
                            day.daylight, day.seed)} :
            /\ schedule' = r.schedule
            /\ slot_candidates' = r.slots
            /\ plan_villager' = [plan_villager EXCEPT !.last_activity = r.last_activity]
            /\ planPre' = [villager |-> plan_villager,
                           family_inventory |-> plan_family_inventory,
                           day |-> day, resources |-> resources]
    /\ planOp' = "plan_day"
    /\ planCalls' = planCalls + 1
    /\ UNCHANGED <<plan_family_inventory, nonPlanVars>>

NextPlan == PlanDailyDecay \/ PlanToolTradedAway \/ PlanToolReceived \/ PlanDay

-----------------------------------------------------------------------------
(* Python float arithmetic: every operation returns the exact result       *)
(* rounded to the nearest float, ties to even.  A float here carries       *)
(* FloatBits significant bits (53 in CPython).                             *)

FloatBits == 8

RECURSIVE Pow2(_)
Pow2(k) == IF k = 0 THEN 1 ELSE 2 * Pow2(k - 1)

\* The exponent e with 2^(FloatBits-1) <= q / 2^e < 2^FloatBits, q > 0.
RECURSIVE FloatExponent(_)
FloatExponent(q) ==
    IF RLe(R(Pow2(FloatBits), 1), q) THEN FloatExponent(RDiv(q, R(2, 1))) + 1
    ELSE IF RLt(q, R(Pow2(FloatBits - 1), 1))
         THEN FloatExponent(RMul(q, R(2, 1))) - 1
         ELSE 0

\* q * 2^e
Scale2(q, e) ==
    IF e >= 0 THEN RMul(q, R(Pow2(e), 1)) ELSE RDiv(q, R(Pow2(-e), 1))

\* The integer nearest to q >= 0, ties to the even one.
RoundHalfEven(q) ==
    CHOOSE r \in { IF 2 * (q[1] - f * q[2]) > q[2]
                      \/ (2 * (q[1] - f * q[2]) = q[2] /\ f % 2 = 1)
                   THEN f + 1 ELSE f : f \in {q[1] \div q[2]} } : TRUE

FlPos(q) ==
    CHOOSE r \in { Scale2(R(RoundHalfEven(Scale2(q, -e)), 1), e) :
                   e \in {FloatExponent(q)} } : TRUE

\* The float nearest to the rational q.
Fl(q) ==
    IF q[1] = 0 THEN Zero
    ELSE IF q[1] < 0 THEN RNeg(FlPos(RNeg(q))) ELSE FlPos(q)

FAdd(a, b) == Fl(RAdd(a, b))
FSub(a, b) == Fl(RSub(a, b))
FMul(a, b) == Fl(RMul(a, b))
FDiv(a, b) == Fl(RDiv(a, b))

\* sum(xs) of the builtin: left to right from the integer 0.
RECURSIVE FSumFrom(_, _, _)
FSumFrom(xs, i, acc) ==
    IF i > Len(xs) THEN acc ELSE FSumFrom(xs, i + 1, FAdd(acc, xs[i]))

FSum(xs) == FSumFrom(xs, 1, Zero)

-----------------------------------------------------------------------------
(* simulation/metrics.py: MetricsCollector.gini_coefficient                *)

\* sorted(values): ascending.
RECURSIVE InsertAsc(_, _)
InsertAsc(x, xs) ==
    IF xs = <<>> THEN <<x>>
    ELSE IF RLe(x, Head(xs)) THEN <<x>> \o xs
    ELSE <<Head(xs)>> \o InsertAsc(x, Tail(xs))

RECURSIVE sorted(_)
sorted(values) ==
    IF values = <<>> THEN <<>> ELSE InsertAsc(Head(values), sorted(Tail(values)))

\* (i + 1) * v for i, v in enumerate(sorted_vals)
RankWeighted(sorted_vals) ==
    [i \in 1..Len(sorted_vals) |-> FMul(R(i, 1), sorted_vals[i])]

\* The last line of gini_coefficient, with n and total bound.
GiniFormula(sorted_vals, n, total) ==
    IF total = Zero THEN Zero
    ELSE FSub(FDiv(FMul(R(2, 1), FSum(RankWeighted(sorted_vals))),
                   FMul(R(n, 1), total)),
              FDiv(R(n + 1, 1), R(n, 1)))

gini_coefficient_Unsorted(values) ==
    IF values = <<>> \/ \A i \in 1..Len(values) : values[i] = Zero THEN Zero
    ELSE GiniFormula(values, Len(values), FSum(values))

gini_coefficient(values) ==
    IF values = <<>> \/ \A i \in 1..Len(values) : values[i] = Zero THEN Zero
    ELSE GiniFormula(sorted(values), Len(values), FSum(sorted(values)))

-----------------------------------------------------------------------------
(* SpecGini: gini_coefficient on lists of family wealth.                   *)

MaxWealths == 3

\* Family wealths: floats, as sums of item values are.
Wealths == {Zero, One, R(77, 1), R(101, 1)}

\* The constants a list is scaled by.
Scales == {R(2, 1), R(3, 1), R(5, 1)}

WealthLists == UNION {[1..n -> Wealths] : n \in 0..MaxWealths}

\* [c * v for v in values]
Scaled(values, c) == [i \in 1..Len(values) |-> FMul(c, values[i])]

InitGini ==
    /\ gini_values \in WealthLists
    /\ gini_scale \in Scales
    /\ gini_result = "none"
    /\ gini_scaled_result = "none"

\* One call on the list and one on the scaled list.
GiniCoefficient ==
    /\ gini_result = "none"
    /\ gini_result' = gini_coefficient(gini_values)
    /\ gini_scaled_result' = gini_coefficient(Scaled(gini_values, gini_scale))
    /\ UNCHANGED <<gini_values, gini_scale>>
    /\ UNCHANGED nonGiniVars

NextGini == GiniCoefficient

-----------------------------------------------------------------------------
(* agents/memory.py: Memory.add_experience and Memory.skill_level          *)

\* config.py
SKILL_LEARNING_RATE == 50
INTELLIGENCE_LEARNING_BONUS == R(1, 2)

\* math.exp(-k/2) for k = 0..21, in ten-thousandths; from x = 10.5 on the
\* table holds 0 (in floats 1.0 - exp(-x) is 1.0 from x = 37 on).
ExpNegTable ==
    <<10000, 6065, 3679, 2231, 1353, 821, 498, 302, 183, 111, 67, 41, 25, 15, 9, 6, 3, 2, 1, 1, 0, 0>>

\* math.exp(-x) for a rational x >= 0, in ten-thousandths: the table
\* value at x = k/2, linear between neighbours.
ExpNeg(x) ==
    CHOOSE r \in
      { IF k >= 21 THEN 0
        ELSE ExpNegTable[k + 1]
             - ((ExpNegTable[k + 1] - ExpNegTable[k + 2])
                * (x[1] * 2 - k * x[2])) \div x[2] :
        k \in {(x[1] * 2) \div x[2]} } : TRUE

\* dict.get(key, 0.0)
Get(d, key) == IF key \in DOMAIN d THEN d[key] ELSE Zero

\* xp_gain of add_experience
XpGain(success, intelligence) ==
    RMul(IF success THEN One ELSE R(3, 10),
         RAdd(One, RMul(INTELLIGENCE_LEARNING_BONUS, R(intelligence, 100))))

Memory_add_experience_LosesOnFailure(xp, activity, success, intelligence) ==
    [a \in DOMAIN xp \cup {activity} |->
       IF a = activity
       THEN IF success THEN RAdd(Get(xp, a), XpGain(success, intelligence))
            ELSE RSub(Get(xp, a), XpGain(success, intelligence))
       ELSE xp[a]]

\* Memory.add_experience: the skill_experience dict after the call.
Memory_add_experience(xp, activity, success, intelligence) ==
    [a \in DOMAIN xp \cup {activity} |->
       IF a = activity THEN RAdd(Get(xp, a), XpGain(success, intelligence))
       ELSE xp[a]]

\* effective_rate of skill_level
EffectiveRate(intelligence) ==
    RMul(R(SKILL_LEARNING_RATE, 1), RAdd(One, RMul(R(1, 2), R(intelligence, 100))))

\* Memory.skill_level: 100.0 * (1.0 - math.exp(-xp / effective_rate)).
Memory_skill_level(xp, activity, intelligence) ==
    R(10000 - ExpNeg(RDiv(Get(xp, activity), EffectiveRate(intelligence))), 100)

-----------------------------------------------------------------------------
(* SpecMemory: one villager's memory under the add_experience calls of     *)
(* _execute_schedule.                                                      *)

MaxMemCalls == 3

\* xp_category or name of the activities practised.
SkillCategories == {"hunting", "gathering"}

\* PersonalityTraits.intelligence, 0 to 100.
Intelligences == {0, 50, 100}

\* Successful activities already behind the villager, per category.
PastSuccesses == {0, 30, 400, 1100}

\* skill_experience after n successes in one category.
ExperienceAfter(n, activity, intelligence) ==
    IF n = 0 THEN <<>>
    ELSE [a \in {activity} |-> RMul(R(n, 1), XpGain(TRUE, intelligence))]

InitMem ==
    /\ mem_intelligence \in Intelligences
    /\ \E n \in PastSuccesses :
         skill_experience = ExperienceAfter(n, "hunting", mem_intelligence)
    /\ memPre = skill_experience
    /\ memOp = [activity |-> "none", success |-> FALSE]
    /\ memCalls = 0

\* engine.py: villager.memory.add_experience(xp_cat, success, intelligence)
AddExperience ==
    /\ memCalls < MaxMemCalls
    /\ memCalls' = memCalls + 1
    /\ \E activity \in SkillCategories, success \in BOOLEAN :
         /\ memOp' = [activity |-> activity, success |-> success]
         /\ skill_experience' =
              Memory_add_experience(skill_experience, activity, success,
                                    mem_intelligence)
    /\ memPre' = skill_experience
    /\ UNCHANGED mem_intelligence
    /\ UNCHANGED nonMemVars

NextMem == AddExperience

-----------------------------------------------------------------------------
(* economy/trade.py: subjective_value                                      *)

\* config.py
TRADE_VALUE_FOOD_HUNGRY_MULTIPLIER == 3
TRADE_DIMINISHING_SURPLUS_FACTOR == R(1, 2)

\* cat.get("warmth_value", 0.0) and cat.get("heal_value", 0.0)
warmth_value(item_type) == IF item_type = "clothing" THEN R(3, 10) ELSE Zero
heal_value(item_type) == IF item_type = "medicine" THEN R(3, 10) ELSE Zero

HungerMult_Flat(hunger_sat) == One

\* hunger_mult
HungerMult(hunger_sat) ==
    IF RLt(hunger_sat, R(1, 2))
    THEN RAdd(One, RMul(RMul(RSub(R(1, 2), hunger_sat),
                             R(TRADE_VALUE_FOOD_HUNGRY_MULTIPLIER - 1, 1)),
                        R(2, 1)))
    ELSE One

\* The shelf-life factor: perish_days below 999 scale the value by
\* 0.7 + 0.3 * min(1.0, perish_days / 60.0).
ShelfFactor(item_type) ==
    IF Catalog(item_type).perish_days < 999
    THEN RAdd(R(7, 10), RMul(R(3, 10), RMin(One, R(Catalog(item_type).perish_days, 60))))
    ELSE One

\* base_value after the food adjustment
FoodAdjusted(villager, item_type) ==
    IF item_type \in ItemTypes /\ RLt(Zero, Catalog(item_type).food_value)
    THEN RMul(RMul(RMul(Catalog(item_type).food_value,
                        HungerMult(villager.needs["hunger"].satisfaction)),
                   R(2, 1)),
              ShelfFactor(item_type))
    ELSE RMul(IF item_type \in ItemTypes THEN Catalog(item_type).weight ELSE One,
              R(1, 2))

\* has_tool of the tool adjustment; an Inventory object is always truthy.
HasTool(villager, tool_type, family_inv) ==
    \/ (villager.personal_inventory # None
        /\ has_tool_type(villager.personal_inventory, tool_type))
    \/ (family_inv # None /\ has_tool_type(family_inv, tool_type))

\* The factor of the tool adjustment.
ToolFactor(villager, item_type, family_inv) ==
    IF item_type \in ItemTypes /\ Catalog(item_type).tool_type # ""
    THEN RMul(IF HasTool(villager, Catalog(item_type).tool_type, family_inv)
              THEN R(4, 5) ELSE R(3, 1),
              RAdd(R(4, 5), RMul(R(2, 5), R(villager.traits["ambition"], 100))))
    ELSE One

\* The factors of the warmth and the medicine adjustment.
WarmthFactor(villager, item_type) ==
    IF RLt(Zero, warmth_value(item_type))
       /\ RLt(villager.needs["warmth"].satisfaction, R(1, 2))
    THEN R(2, 1) ELSE One

MedicineFactor(villager, item_type) ==
    IF RLt(Zero, heal_value(item_type))
       /\ RLt(villager.needs["health"].satisfaction, R(7, 10))
    THEN R(5, 2) ELSE One

\* owned
Owned(villager, item_type, family_inv) ==
    RAdd(IF family_inv # None THEN total_of(family_inv, item_type) ELSE Zero,
         IF villager.personal_inventory # None
         THEN total_of(villager.personal_inventory, item_type) ELSE Zero)

\* diminish
DiminishFactor(owned) ==
    IF RLt(Zero, owned)
    THEN RDiv(One, RAdd(One, RMul(owned, TRADE_DIMINISHING_SURPLUS_FACTOR)))
    ELSE One

\* skill_map
SkillMap(item_type) ==
    CASE item_type = "raw_meat" -> "hunting"
      [] item_type = "fish" -> "fishing"
      [] item_type = "berries" -> "gathering"
      [] item_type = "vegetables" -> "farming"
      [] OTHER -> ""

\* The factor of the skill-based adjustment.
SkillFactor(villager, item_type) ==
    IF SkillMap(item_type) # ""
    THEN CHOOSE r \in
           { IF RLt(R(30, 1), skill)
             THEN RMax(R(1, 2), RSub(One, RDiv(skill, R(200, 1))))
             ELSE One :
             skill \in {Memory_skill_level(villager.skill_experience,
                                           SkillMap(item_type),
                                           villager.traits["intelligence"])} } : TRUE
    ELSE One

subjective_value(villager, item_type, quantity, family_inv) ==
    RMax(R(1, 100),
         RMul(RMul(RMul(RMul(RMul(RMul(FoodAdjusted(villager, item_type),
                                       ToolFactor(villager, item_type, family_inv)),
                                  WarmthFactor(villager, item_type)),
                             MedicineFactor(villager, item_type)),
                        DiminishFactor(Owned(villager, item_type, family_inv))),
                   SkillFactor(villager, item_type)),
              quantity))

-----------------------------------------------------------------------------
(* SpecValue: subjective_value of one item across hunger satisfactions,    *)
(* everything else fixed.                                                  *)

\* The hunger satisfactions the value is taken at.
HungerLevels ==
    {R(1, 10), R(3, 10), R(9, 20), R(1, 2), R(7, 10), R(9, 10)}

ValuedItems ==
    {"berries", "raw_meat", "dried_meat", "grain", "fish", "stone_axe",
     "clothing", "medicine"}

ValuedQuantities == {R(1, 100), One, R(3, 1)}

\* No family inventory, the one initialize() leaves, and a well-stocked one.
ValuedFamilyInventories ==
    { None, StartingFamilyInventory(2),
      AddAll(Inventory(R(FamilyInventoryCapacity, 1)),
             << create_item("berries", R(300, 1), R(1, 2)),
                create_item("grain", R(40, 1), R(1, 2)) >>) }

\* A villager with the given hunter's past and hunger satisfaction.
Valuer(successes, hunger_sat) ==
    [needs |-> [NeedSystem EXCEPT !["hunger"].satisfaction = hunger_sat],
     traits |-> [t \in TraitNames |-> 50],
     personal_inventory |-> Inventory(R(30, 1)),
     skill_experience |-> ExperienceAfter(successes, "hunting", 50)]

InitValue ==
    /\ \E successes \in {0, 1100} : sv_villager = Valuer(successes, One)
    /\ sv_item_type \in ValuedItems
    /\ sv_quantity \in ValuedQuantities
    /\ sv_family_inv \in ValuedFamilyInventories
    /\ sv_value = <<>>

\* One call per hunger satisfaction, nothing else changed.
SubjectiveValue ==
    /\ sv_value = <<>>
    /\ sv_value' =
         [h \in HungerLevels |->
            subjective_value([sv_villager EXCEPT !.needs["hunger"].satisfaction = h],
                             sv_item_type, sv_quantity, sv_family_inv)]
    /\ UNCHANGED <<sv_villager, sv_item_type, sv_quantity, sv_family_inv>>
    /\ UNCHANGED nonValueVars

NextValue == SubjectiveValue

-----------------------------------------------------------------------------
(* simulation/engine.py: the stages of SimulationEngine.tick from the      *)
(* morning's decisions to the overnight maintenance, as they work on the   *)
(* villagers.  The state followed is the registry of villagers; the        *)
(* family's stores.  The days followed bring no random event, the village *)
(* stands by the water in mild weather without a shelter, the family holds *)
(* food and nothing to trade, and the plans made in the morning are a rest *)
(* or a gathering with the others.  Every rng.random() of one tick returns *)
(* the same value.                                                         *)
-----------------------------------------------------------------------------

DAYS_PER_YEAR == 360
MAX_AGE == 75
CHILD_MATURITY_AGE == 14
ELDER_DECLINE_AGE == 55
PREGNANCY_DURATION_DAYS == 270
POST_BIRTH_RECOVERY_DAYS == 30

\* The default of every PersonalityTraits field.
TraitDefault == 50

\* Villager.__init__ with traits at their defaults (every trait 50.0) and
\* the personal inventory the engine hands out; current_sentiment in
\* thousandths, recent_events as the impacts remembered.
DayVillager(sex, age_days, capacity) ==
    [is_alive |-> TRUE, sex |-> sex, age_days |-> age_days,
     health |-> R(100, 1), fatigue |-> Zero,
     is_pregnant |-> FALSE, pregnancy_days |-> 0, recovery_days |-> 0,
     current_activity |-> "", spouse_id |-> 0, id |-> 0, family_id |-> -1,
     current_sentiment |-> 50000, recent_events |-> <<>>,
     needs |-> NeedSystem, personal_inventory |-> Inventory(capacity)]

\* The villager under its id and in its family.
Enrolled(v, id, family_id) == [v EXCEPT !.id = id, !.family_id = family_id]

age_years(v) == v.age_days \div DAYS_PER_YEAR
is_child(v) == age_years(v) < CHILD_MATURITY_AGE
is_elder(v) == age_years(v) > ELDER_DECLINE_AGE
is_fertile(v) ==
    /\ v.sex = "female"
    /\ 16 <= age_years(v) /\ age_years(v) <= 45
    /\ ~v.is_pregnant

AliveIn(vs) == {id \in 1..Len(vs) : vs[id].is_alive}

\* The villagers with a relationship among them: the founders, each a
\* friend of the others with trust 1.0 and an affinity above
\* MARRIAGE_MIN_AFFINITY.  get_friends and get_trusted answer with ids,
\* whether their holders live or not.
Founders == 1..3
get_friends(id) == IF id \in Founders THEN Founders \ {id} ELSE {}
FounderTrust == One

\* The log of a tick: alive is the list tick() builds on entry; entry and
\* loop give, per stage, the villagers alive when the stage began and
\* those its per-agent loop worked on; schedule gives the _day_schedule
\* of those planned for, leader the villager who recruited each recruit
\* and mood the villagers as spread_sentiment found them.
NoStages == [s \in {} |-> {}]
StartOfTick(vs, family_inv, reg) ==
    [vs |-> vs, inv |-> family_inv, reg |-> reg,
     log |-> [alive |-> AliveIn(vs), entry |-> NoStages, loop |-> NoStages,
              planned |-> {}, party |-> {}, executed |-> {}, social |-> {},
              traded |-> {}, fed |-> {}, mothers |-> {}, married |-> {},
              schedule |-> NoStages, leader |-> NoStages, mood |-> <<>>]]

\* w with stage s logged as having looped over ids.
Logged(w, s, ids) ==
    [w EXCEPT !.log.entry = [t \in DOMAIN @ \cup {s} |->
                               IF t = s THEN AliveIn(w.vs) ELSE @[t]],
              !.log.loop = [t \in DOMAIN @ \cup {s} |->
                              IF t = s THEN ids ELSE @[t]]]

\* Stage 3, decisions: children under six and mothers in recovery rest;
\* the others are planned for, and _day_schedule holds their schedule.
PlannedFor(v) == ~(is_child(v) /\ age_years(v) < 6) /\ v.recovery_days = 0

Decided(v, sched) ==
    [v EXCEPT !.current_activity =
        IF PlannedFor(v) /\ sched # <<>> THEN sched[1] ELSE "rest"]

\* What plan_day answers for villager id: the first of the day's plans
\* for the villagers of odd id, the second for those of even id.
PlanOf(plans, id) == plans[((id - 1) % Len(plans)) + 1]

Stage3(w, plans) ==
    [Logged(w, 3, w.log.alive) EXCEPT
       !.vs = [id \in 1..Len(w.vs) |->
                 IF id \in w.log.alive THEN Decided(w.vs[id], PlanOf(plans, id))
                 ELSE w.vs[id]],
       !.log.planned = {id \in w.log.alive : PlannedFor(w.vs[id])},
       !.log.schedule = [id \in {c \in w.log.alive : PlannedFor(w.vs[c])} |->
                           PlanOf(plans, id)]]

\* decision.py evaluate_cooperation_request, in thousandths.
evaluate_cooperation_request(villager, activity_name, trust) ==
    MulM(SumM([i \in 1..Len(ACTIVITY_NEED_MAPPING(activity_name)) |->
                 get_urgency_vector(villager.needs)[ACTIVITY_NEED_MAPPING(activity_name)[i]]]),
         300 + MulM(700, Milli(RMax(Zero, trust))))
      - ((100 - TraitDefault) * 300) \div 100
    > 300

\* Stage 4, groups.py resolve_work_parties over the list alive: each
\* living villager not yet assigned whose activity needs a group recruits
\* the living friends who accept; [vs, assigned, party, leader].
Recruits(p, id) ==
    {c \in get_friends(id) :
       /\ c \in p.alive /\ c \notin p.assigned /\ p.vs[c].is_alive
       /\ evaluate_cooperation_request(p.vs[c], p.vs[id].current_activity,
                                       FounderTrust)}

Recruit(p, id, recruited) ==
    [p EXCEPT
       !.vs = [c \in 1..Len(p.vs) |->
                 IF c \in recruited
                 THEN [p.vs[c] EXCEPT !.current_activity = p.vs[id].current_activity]
                 ELSE p.vs[c]],
       !.assigned = @ \cup {id} \cup recruited,
       !.leader = [c \in DOMAIN @ \cup recruited |-> IF c \in recruited THEN id ELSE @[c]],
       !.party = IF Cardinality(recruited) + 1
                      >= ACTIVITIES(p.vs[id].current_activity).min_group_size
                 THEN @ \cup {id} \cup recruited ELSE @]

RECURSIVE WorkParties(_, _)
WorkParties(p, id) ==
    IF id > Len(p.vs) THEN p
    ELSE IF \/ id \notin p.alive \/ ~p.vs[id].is_alive \/ id \in p.assigned
            \/ ACTIVITIES(p.vs[id].current_activity).min_group_size <= 1
    THEN WorkParties(p, id + 1)
    ELSE WorkParties(Recruit(p, id, Recruits(p, id)), id + 1)

WithParties(w, p) ==
    [w EXCEPT !.vs = p.vs, !.log.party = p.party, !.log.leader = p.leader]

Stage4(w) ==
    WithParties(w, WorkParties([vs |-> w.vs, alive |-> w.log.alive,
                                assigned |-> {}, party |-> {}, leader |-> NoStages], 1))

\* _execute_schedule, one plan of a schedule of rests and gatherings.
ExecutePlan(v, act) ==
    IF act.name = "rest"
    THEN [v EXCEPT !.fatigue = RMax(Zero, RAdd(@, act.fatigue_cost)),
                   !.needs["rest"] = Need_satisfy(@, R(2, 5))]
    ELSE IF act.name = "socialize"
    THEN [v EXCEPT !.needs["social"] = Need_satisfy(@, R(3, 10))]
    ELSE v

RECURSIVE execute_schedule(_, _, _)
execute_schedule(v, sched, i) ==
    IF i > Len(sched) THEN v
    ELSE execute_schedule(ExecutePlan(v, ACTIVITIES(sched[i])), sched, i + 1)

\* Stage 5, execution: the villagers of the list alive that have a
\* _day_schedule carry it out, whatever current_activity says by now.
Stage5(w) ==
    [Logged(w, 5, w.log.alive) EXCEPT
       !.vs = [id \in 1..Len(w.vs) |->
                 IF id \in w.log.planned
                 THEN execute_schedule(w.vs[id], w.log.schedule[id], 1)
                 ELSE w.vs[id]],
       !.log.executed = {id \in w.log.planned : w.log.schedule[id] # <<>>}]

\* Stage 6, _auto_satisfy_thirst: the village stands by the water.
Stage6(w) ==
    [Logged(w, 6, w.log.alive) EXCEPT
       !.vs = [id \in 1..Len(w.vs) |->
                 IF id \in w.log.alive
                 THEN [w.vs[id] EXCEPT !.needs["thirst"] = Need_satisfy(@, R(2, 5))]
                 ELSE w.vs[id]]]

\* The ids of a set in ascending order, and rng.choice from such a list.
IdSeq(ids) ==
    [i \in 1..Cardinality(ids) |->
       CHOOSE x \in ids : Cardinality({y \in ids : y < x}) = i - 1]
Choice(ids, pick) == IdSeq(ids)[((pick - 1) % Cardinality(ids)) + 1]

\* decide_social: 0 for no action, else the target's id.  The villagers
\* share one family.
decide_social(id, available, roll, pick) ==
    IF available = {} \/ RLt(R(3, 5), roll) THEN 0
    ELSE IF RLt(roll, R(2, 5)) THEN Choice(available, pick)
    ELSE IF get_friends(id) \cap available # {}
    THEN Choice(get_friends(id) \cap available, pick)
    ELSE Choice(available, pick)

\* _resolve_social_phase, one interaction of villager id with target.
Interact(s, id, target) ==
    IF target = 0 \/ target > Len(s.vs) THEN s
    ELSE IF ~s.vs[target].is_alive \/ target = id THEN s
    ELSE [s EXCEPT !.vs[id].needs["social"] = Need_satisfy(@, R(1, 10)),
                   !.vs[target].needs["social"] = Need_satisfy(@, R(1, 20)),
                   !.social = @ \cup {id, target}]

\* n_interactions = int(1 + sociability / 100 * (5 - 1))
n_interactions == 1 + (TraitDefault * 4) \div 100

RECURSIVE Interactions(_, _, _, _, _)
Interactions(s, id, k, roll, pick) ==
    IF k > n_interactions \/ decide_social(id, s.alive, roll, pick) = 0 THEN s
    ELSE Interactions(Interact(s, id, decide_social(id, s.alive, roll, pick)),
                      id, k + 1, roll, pick)

RECURSIVE SocialPhase(_, _, _, _)
SocialPhase(s, id, roll, pick) ==
    IF id > Len(s.vs) THEN s
    ELSE IF id \notin s.alive \/ (is_child(s.vs[id]) /\ age_years(s.vs[id]) < 6)
    THEN SocialPhase(s, id + 1, roll, pick)
    ELSE SocialPhase(Interactions(s, id, 1, roll, pick), id + 1, roll, pick)

WithSocial(w, s) == [w EXCEPT !.vs = s.vs, !.log.social = s.social]

\* Stage 7, the social phase.
Stage7(w, roll, pick) ==
    WithSocial(Logged(w, 7, w.log.alive),
               SocialPhase([vs |-> w.vs, alive |-> w.log.alive, social |-> {}],
                           1, roll, pick))

\* _resolve_trade_phase: the partners a trader turns to, the dead ones
\* among its friends included.
TradePartners_DeadIncluded(vs, traders, id) ==
    {p \in get_friends(id) \cup (traders \ {id}) : p # id}

\* _resolve_trade_phase: the partners a trader turns to, out of the ones
\* it trusts, its friends and the other traders.
TradePartners(vs, traders, id) ==
    {p \in get_friends(id) \cup (traders \ {id}) : vs[p].is_alive /\ p # id}

Traders(vs, alive) == {id \in alive : ~is_child(vs[id]) \/ age_years(vs[id]) >= 10}

\* willingness = TRADE_WILLINGNESS_BASE + sociability / 100 * 0.3
\*               - (1 - risk_tolerance / 100) * 0.1
Willingness == R(3, 5)

TradeParticipants(vs, alive, roll) ==
    IF Cardinality(Traders(vs, alive)) < 2 \/ RLt(Willingness, roll) THEN {}
    ELSE UNION { IF TradePartners(vs, Traders(vs, alive), id) = {} THEN {}
                 ELSE {id} \cup TradePartners(vs, Traders(vs, alive), id) :
                 id \in Traders(vs, alive) }

\* Stage 7b, the trade phase, as far as who takes part.
Stage7b(w, roll) ==
    [w EXCEPT !.log.traded = TradeParticipants(w.vs, w.log.alive, roll)]

\* Stage 8, Family.distribute_food for the one family: member_ids holds
\* every villager of the registry.
FounderFamily == 0

member_ids(w) ==
    IF FounderFamily \in DOMAIN w.reg.families THEN w.reg.families[FounderFamily]
    ELSE <<>>

\* The members as distribute_food finds them through villagers_by_id.
FamilyMembers(w) ==
    [k \in 1..Len(member_ids(w)) |->
       [is_alive |-> w.vs[member_ids(w)[k]].is_alive,
        hunger |-> w.vs[member_ids(w)[k]].needs["hunger"]]]

\* Where villager id stands in the member list, 0 if nowhere.
MemberPlace(w, id) ==
    IF \E k \in 1..Len(member_ids(w)) : member_ids(w)[k] = id
    THEN CHOOSE k \in 1..Len(member_ids(w)) : member_ids(w)[k] = id
    ELSE 0

Fed(w, members) ==
    [w EXCEPT
       !.vs = [id \in 1..Len(w.vs) |->
                 IF MemberPlace(w, id) = 0 THEN w.vs[id]
                 ELSE [w.vs[id] EXCEPT
                         !.needs["hunger"] = members[MemberPlace(w, id)].hunger]],
       !.log.fed = {id \in 1..Len(w.vs) :
                      /\ MemberPlace(w, id) # 0
                      /\ members[MemberPlace(w, id)].hunger # w.vs[id].needs["hunger"]}]

Stage8(w) ==
    CHOOSE r \in { [Fed(w, d.members) EXCEPT !.inv = d.inventory] :
                   d \in {distribute_food(w.inv, FamilyMembers(w))} } : TRUE

\* Villager.daily_update from the death check on; die() marks the
\* villager dead and clears its activity.
die(v) == [v EXCEPT !.is_alive = FALSE, !.current_activity = ""]

DeathChance(v) == R(age_years(v) - MAX_AGE + 1, 100)

AfterDeathCheck(v, roll) ==
    IF RLe(v.health, Zero) THEN die(v)
    ELSE IF age_years(v) >= MAX_AGE /\ RLt(roll, DeathChance(v)) THEN die(v)
    ELSE [v EXCEPT
            !.pregnancy_days = IF v.is_pregnant THEN @ + 1 ELSE @,
            !.recovery_days = IF @ > 0 THEN @ - 1 ELSE @,
            !.fatigue = RMax(Zero, RSub(@, RMul(R(3, 5), RDiv(v.health, R(100, 1)))))]

\* MemoryStore.recall_sentiment, in thousandths.
recall_sentiment(events) ==
    IF events = <<>> THEN 0
    ELSE SumM([i \in 1..Len(events) |-> Milli(events[i])]) \div Len(events)

\* Villager.daily_update, the sentiment: SENTIMENT_DECAY_TOWARD_BASELINE
\* (0.02) of the way to baseline_optimism and a tenth of the remembered
\* impacts.
SentimentDrift(v) ==
    ClampM(0, v.current_sentiment
                + (20 * (TraitDefault * 1000 - v.current_sentiment)) \div 1000
                + recall_sentiment(v.recent_events) \div 10, 100000)

\* Villager.daily_update: a day of age, the drift of sentiment toward
\* baseline_optimism, the decline of an elder (rng.uniform(0.5, 2.0) at its
\* upper end), then the death check.
daily_update(v, roll) ==
    AfterDeathCheck(
      [v EXCEPT
         !.age_days = @ + 1,
         !.current_sentiment = SentimentDrift(v),
         !.health = IF is_elder([v EXCEPT !.age_days = @ + 1]) /\ RLt(roll, R(1, 100))
                    THEN RMax(Zero, RSub(@, R(2, 1))) ELSE @],
      roll)

\* Stage 9, the night's need updates of the list alive.
NightOf(v, roll) ==
    daily_update(
      [v EXCEPT !.needs = NeedSystem_daily_decay(
                   @, One, Zero, RLt(R(7, 10), v.needs["social"].satisfaction),
                   v.current_activity \notin {"rest", "socialize", ""})],
      roll)

Stage9(w, roll) ==
    [Logged(w, 9, w.log.alive) EXCEPT
       !.vs = [id \in 1..Len(w.vs) |->
                 IF id \in w.log.alive THEN NightOf(w.vs[id], roll) ELSE w.vs[id]]]

\* influence.py spread_sentiment over the whole registry: the contacts
\* counted are the living friends, each with the same weight.
Contacts(vs, id) == {c \in get_friends(id) : c <= Len(vs) /\ vs[c].is_alive}

social_avg(vs, ids) ==
    SumM([i \in 1..Cardinality(ids) |-> vs[IdSeq(ids)[i]].current_sentiment])
      \div Cardinality(ids)

\* pull = SENTIMENT_CONTAGION_RATE * (1 - stability * 0.7), times
\* 0.5 + 0.5 * sociability / 100: 0.04875 at the default traits.
sentiment_delta(vs, id) ==
    IF ~vs[id].is_alive \/ Contacts(vs, id) = {} THEN 0
    ELSE ((social_avg(vs, Contacts(vs, id)) - vs[id].current_sentiment) * 4875)
           \div 100000

\* The first loop of spread_sentiment, over the living in the given
\* order: sentiment_updates as the [id, delta] entries in the order they
\* were put in.
RECURSIVE sentiment_updates(_, _, _, _)
sentiment_updates(vs, order, i, updates) ==
    IF i > Len(order) THEN updates
    ELSE IF Contacts(vs, order[i]) = {}
    THEN sentiment_updates(vs, order, i + 1, updates)
    ELSE sentiment_updates(vs, order, i + 1,
            Append(updates, [id |-> order[i], delta |-> sentiment_delta(vs, order[i])]))

\* The second loop: the updates applied, each clamped to 0..100.
RECURSIVE ApplyUpdates(_, _, _)
ApplyUpdates(vs, updates, i) ==
    IF i > Len(updates) THEN vs
    ELSE ApplyUpdates([vs EXCEPT ![updates[i].id].current_sentiment =
                          ClampM(0, @ + updates[i].delta, 100000)],
                      updates, i + 1)

\* One loop that applies each delta as soon as it is computed.
RECURSIVE InPlaceFrom(_, _, _)
InPlaceFrom(vs, order, i) ==
    IF i > Len(order) THEN vs
    ELSE InPlaceFrom([vs EXCEPT ![order[i]].current_sentiment =
                         ClampM(0, @ + sentiment_delta(vs, order[i]), 100000)],
                     order, i + 1)

spread_sentiment_InPlace(vs, order) == InPlaceFrom(vs, order, 1)

\* InfluenceSystem.spread_sentiment on the villagers, the living taken in
\* the given order.
spread_sentiment(vs, order) ==
    ApplyUpdates(vs, sentiment_updates(vs, order, 1, <<>>), 1)

\* Stage 10: the living are taken in the order of the registry.
Stage10(w) ==
    [Logged(w, 10, AliveIn(w.vs)) EXCEPT
       !.vs = spread_sentiment(w.vs, IdSeq(AliveIn(w.vs))),
       !.log.mood = w.vs]

\* The births a day late: the counter must have passed the term.
Mothers_DayLate(vs, alive) ==
    {id \in alive : vs[id].is_pregnant
                    /\ vs[id].pregnancy_days > PREGNANCY_DURATION_DAYS}

\* _process_lifecycle, births: the mothers among alive whose term is up.
Mothers(vs, alive) ==
    {id \in alive : vs[id].is_pregnant
                    /\ vs[id].pregnancy_days >= PREGNANCY_DURATION_DAYS}

\* give_birth on the mother's side.
Delivered(v) ==
    [v EXCEPT !.is_pregnant = FALSE, !.pregnancy_days = 0,
              !.recovery_days = POST_BIRTH_RECOVERY_DAYS]

ChildSex(pick) == <<"male", "female">>[pick]

\* The births of the day: each mother's child is appended to the
\* registry under the next id, with the mother's family_id.
Births(vs, alive, pick, next_villager_id) ==
    [id \in 1..Len(vs) |-> IF id \in Mothers(vs, alive) THEN Delivered(vs[id])
                           ELSE vs[id]]
      \o [k \in 1..Cardinality(Mothers(vs, alive)) |->
            Enrolled(DayVillager(ChildSex(pick), 0, R(10, 1)),
                     next_villager_id + k - 1,
                     vs[IdSeq(Mothers(vs, alive))[k]].family_id)]

\* Family.add_member
add_member(ids, villager_id) ==
    IF \E k \in 1..Len(ids) : ids[k] = villager_id THEN ids ELSE Append(ids, villager_id)

\* The registry after the births: _next_villager_id has moved on by one
\* per child and each child is a member of its mother's family, if the
\* family manager knows that family.
RECURSIVE Registered(_, _, _)
Registered(reg, mothers, k) ==
    IF k > Len(mothers) THEN reg
    ELSE Registered(
           [next_villager_id |-> reg.next_villager_id + 1,
            families |-> [f \in DOMAIN reg.families |->
                            IF f = mothers[k].family_id
                            THEN add_member(reg.families[f], reg.next_villager_id)
                            ELSE reg.families[f]]],
           mothers, k + 1)

MothersOf(vs, alive) ==
    [k \in 1..Cardinality(Mothers(vs, alive)) |-> vs[IdSeq(Mothers(vs, alive))[k]]]

\* _process_lifecycle, marriage proposals: the friends a woman may marry.
Suitors(vs, id) ==
    {f \in get_friends(id) :
       /\ vs[f].is_alive
       /\ vs[f].spouse_id = 0 /\ vs[f].sex # vs[id].sex /\ age_years(vs[f]) >= 16}

Proposes(vs, alive, id, roll) ==
    /\ id \in alive /\ vs[id].spouse_id = 0 /\ age_years(vs[id]) >= 16
    /\ vs[id].sex = "female"
    /\ Suitors(vs, id) # {} /\ RLt(roll, R(1, 20))

\* The first friend in the list that may be married.
Groom(vs, id) == IdSeq(Suitors(vs, id))[1]

RECURSIVE Marriages(_, _, _, _)
Marriages(s, alive, id, roll) ==
    IF id > Len(s.vs) THEN s
    ELSE IF ~Proposes(s.vs, alive, id, roll) THEN Marriages(s, alive, id + 1, roll)
    ELSE Marriages([s EXCEPT !.vs[id].spouse_id = Groom(s.vs, id),
                             !.vs[Groom(s.vs, id)].spouse_id = id,
                             !.married = @ \cup {id, Groom(s.vs, id)}],
                   alive, id + 1, roll)

\* _process_lifecycle, pregnancy initiation.
Conceives(vs, alive, id, roll) ==
    /\ id \in alive /\ is_fertile(vs[id]) /\ vs[id].spouse_id # 0
    /\ vs[vs[id].spouse_id].is_alive
    /\ RLt(roll, R(1, 200))

Conceptions(vs, alive, roll) ==
    [id \in 1..Len(vs) |->
       IF Conceives(vs, alive, id, roll)
       THEN [vs[id] EXCEPT !.is_pregnant = TRUE, !.pregnancy_days = 0]
       ELSE vs[id]]

WithLifecycle(w, alive, s, roll) ==
    [w EXCEPT !.vs = Conceptions(s.vs, alive, roll),
              !.reg = Registered(w.reg, MothersOf(w.vs, alive), 1),
              !.log.mothers = Mothers(w.vs, alive),
              !.log.married = s.married]

\* Stage 11, _process_lifecycle: alive is taken anew on entry.
Stage11(w, roll, pick) ==
    WithLifecycle(Logged(w, 11, AliveIn(w.vs)), AliveIn(w.vs),
                  Marriages([vs |-> Births(w.vs, AliveIn(w.vs), pick,
                                           w.reg.next_villager_id),
                             married |-> {}],
                            AliveIn(w.vs), 1, roll),
                  roll)

\* Item.is_spoiled after Item.age_one_day
Aged(item) == [item EXCEPT !.days_since_created = @ + 1]
is_spoiled(item) ==
    /\ Catalog(item.item_type).perishable
    /\ item.days_since_created >= Catalog(item.item_type).perish_days

\* Inventory.daily_perish
Inventory_daily_perish(iv) ==
    [iv EXCEPT !.items =
       SelectSeq([k \in 1..Len(iv.items) |->
                    [item_type |-> iv.items[k].item_type,
                     stacks |-> SelectSeq([j \in 1..Len(iv.items[k].stacks) |->
                                             Aged(iv.items[k].stacks[j])],
                                          LAMBDA it : ~is_spoiled(it))]],
                 LAMBDA e : e.stacks # <<>>)]

\* Stage 12, inventory maintenance: the personal inventories of the list
\* alive that tick() built on entry, then the family's.
Stage12(w) ==
    [Logged(w, 12, w.log.alive) EXCEPT
       !.vs = [id \in 1..Len(w.vs) |->
                 IF id \in w.log.alive
                 THEN [w.vs[id] EXCEPT !.personal_inventory = Inventory_daily_perish(@)]
                 ELSE w.vs[id]],
       !.inv = Inventory_daily_perish(@)]

\* SimulationEngine.tick from the decisions on.
TickStages(w, plans, roll, pick) ==
    Stage12(Stage11(Stage10(Stage9(Stage8(Stage7b(Stage7(Stage6(Stage5(Stage4(
      Stage3(w, plans)))), roll, pick), roll)), roll)), roll, pick))

\* ---------------------------------------------------------------------
\* SpecDay: a village of three founders lives through its days
\* ---------------------------------------------------------------------

MaxDayTicks == 2

\* The schedules plan_day hands out, the values rng.random() returns and
\* the places rng.choice points at.
DaySchedules == {<<"rest">>, <<"socialize">>}
DayPlans == DaySchedules \X DaySchedules
DayRolls == {Zero, R(1, 2), R(99, 100)}
DayPicks == 1..2

\* events.py apply_events on one villager: a festival (sentiment_boost
\* 10) and a disease of health_damage 20.
Festival(v) ==
    [v EXCEPT !.current_sentiment = ClampM(0, @ + 10000, 100000),
              !.needs["social"] = Need_satisfy(@, R(3, 10)),
              !.needs["purpose"] = Need_satisfy(@, R(1, 5)),
              !.recent_events = Append(@, R(1, 2))]

Disease(v) ==
    [v EXCEPT !.health = RMax(Zero, RSub(@, R(20, 1))),
              !.needs["health"] = Need_satisfy(@, R(-1, 5)),
              !.recent_events = Append(@, R(-3, 10))]

\* A villager a day on: NeedsAfterDay and the night's drift of sentiment.
DayOn(v) == [v EXCEPT !.needs = NeedsAfterDay(@), !.current_sentiment = SentimentDrift(v)]

\* The founders on the morning followed, the fifth after a festival: a
\* woman of thirty, a man of seventy-five who fell sick this morning, and
\* a man of forty.  With couple, the woman and the younger man are married
\* and she is a day short of her term; with weak, the old man's health is
\* down to 2.
Founder(sex, years) ==
    DayOn(DayOn(DayOn(DayOn(
      Festival(DayVillager(sex, years * DAYS_PER_YEAR, R(30, 1)))))))

FoundersAt(couple, weak) ==
    << [Founder("female", 30) EXCEPT
           !.spouse_id = IF couple THEN 3 ELSE 0,
           !.is_pregnant = couple,
           !.pregnancy_days = IF couple THEN PREGNANCY_DURATION_DAYS - 1 ELSE 0,
           !.id = 1, !.family_id = FounderFamily],
       [Disease(Founder("male", MAX_AGE)) EXCEPT
           !.health = IF weak THEN R(2, 1) ELSE @,
           !.id = 2, !.family_id = FounderFamily],
       [Founder("male", 40) EXCEPT !.spouse_id = IF couple THEN 1 ELSE 0,
           !.id = 3, !.family_id = FounderFamily] >>

\* The family inventory of a village founded with STARTING_TOOLS and
\* STARTING_SHELTERS off: _distribute_starting_food alone.
StartingFoodOnly(n) ==
    AddAll(Inventory(R(FamilyInventoryCapacity, 1)),
           << create_item("grain", R(StartingFoodPerPerson * n, 2), R(1, 2)),
              create_item("dried_meat", R(StartingFoodPerPerson * n * 3, 10), R(1, 2)),
              create_item("dried_fish", R(StartingFoodPerPerson * n, 5), R(1, 2)) >>)

InitDay ==
    /\ \E couple \in BOOLEAN, weak \in BOOLEAN :
          day_villagers = FoundersAt(couple, weak)
    /\ day_family_inv = StartingFoodOnly(3)
    /\ day_registry = [next_villager_id |-> 4,
                       families |-> [f \in {FounderFamily} |-> <<1, 2, 3>>]]
    /\ stage_log = "none"
    /\ dayPre = "none"
    /\ dayTicks = 0

\* SimulationEngine.tick
DayTick ==
    /\ dayTicks < MaxDayTicks
    /\ \E plans \in DayPlans, roll \in DayRolls, pick \in DayPicks :
          \E w \in { IF AliveIn(day_villagers) = {}
                     THEN StartOfTick(day_villagers, day_family_inv, day_registry)
                     ELSE TickStages(StartOfTick(day_villagers, day_family_inv,
                                                 day_registry),
                                     plans, roll, pick) } :
             /\ day_villagers' = w.vs
             /\ day_family_inv' = w.inv
             /\ day_registry' = w.reg
             /\ stage_log' = w.log
    /\ dayPre' = day_villagers
    /\ dayTicks' = dayTicks + 1
    /\ UNCHANGED nonDayVars

NextDay == DayTick

-----------------------------------------------------------------------------
(* simulation/engine.py and world/resources.py: the resource-producing     *)
(* branch of _execute_schedule, for a villager gathering berries at the    *)
(* node its plan names.                                                    *)
-----------------------------------------------------------------------------

\* ResourceNode.harvest without the min against what is left.
ResourceNode_harvest_Uncapped(node, amount, tq) ==
    [node |-> [node EXCEPT !.current_abundance = RSub(@, RMul(amount, tq))],
     actual |-> RMul(amount, tq)]

\* ResourceNode.harvest: [node, actual].
ResourceNode_harvest(node, amount, tq) ==
    [node |-> [node EXCEPT !.current_abundance =
                  RSub(@, RMin(RMul(amount, tq), node.current_abundance))],
     actual |-> RMin(RMul(amount, tq), node.current_abundance)]

\* ResourceNode.regenerate, with the node's seasonal modifier of the season.
ResourceNode_regenerate(node, modifier) ==
    [node EXCEPT !.current_abundance =
        RMin(node.max_abundance,
             RAdd(@, RMul(RMul(node.regeneration_rate, node.max_abundance), modifier)))]

\* ResourceManager.get_nearest_of_type(position, resource_type): the id of
\* the nearest node of the type with abundance left, 0 for None; of two
\* equally near the first in the dictionary.
Distance(node, position) ==
    IF node.position >= position THEN node.position - position
    ELSE position - node.position

Stocked(nodes, resource_type) ==
    {n \in DOMAIN nodes : /\ nodes[n].resource_type = resource_type
                          /\ RLt(Zero, nodes[n].current_abundance)}

get_nearest_of_type(nodes, position, resource_type) ==
    IF Stocked(nodes, resource_type) = {} THEN 0
    ELSE CHOOSE n \in Stocked(nodes, resource_type) :
           \A o \in Stocked(nodes, resource_type) :
              \/ Distance(nodes[n], position) < Distance(nodes[o], position)
              \/ Distance(nodes[n], position) = Distance(nodes[o], position) /\ n <= o

\* What the call the engine makes, get_nearest_of_type(position,
\* resource_type, rng=self.rng), comes to: the method takes no rng.
get_nearest_of_type_with_rng(nodes, position, resource_type) == "TypeError"

\* Activity.calculate_yield of gather_berries (outputs berries 6.0 and
\* plant_fiber 1.5) for a villager without gathering skill and
\* tool_quality 1.0: skill_mult 0.8, tool_mult 1.1.
GatherOutputs == << [item_type |-> "berries", base_qty |-> R(6, 1)],
                    [item_type |-> "plant_fiber", base_qty |-> R(3, 2)] >>

calculate_yield(base_qty, roll) ==
    RMax(R(1, 10),
         RMul(RMul(RMul(base_qty, R(4, 5)), R(11, 10)),
              RAdd(R(7, 10), RMul(roll, R(3, 10)))))

\* Activity.calculate_success of gather_berries for that villager with
\* every trait at 50 in fair weather: 0.8 * 1.0 * 0.5 * 1.5.
GatherSuccessChance == R(3, 5)

\* The loop over yields.items(): each output is harvested from the node
\* and, if anything came, added to the family's inventory; [nodes, inv].
RECURSIVE HarvestYields(_, _, _, _)
HarvestYields(s, target, roll, i) ==
    IF i > Len(GatherOutputs) THEN s
    ELSE CHOOSE r \in
           { HarvestYields(
                [nodes |-> [s.nodes EXCEPT ![target] = h.node],
                 inv |-> IF RLt(Zero, h.actual)
                         THEN Inventory_add(s.inv, create_item(GatherOutputs[i].item_type,
                                                               h.actual, R(1, 2))).inv
                         ELSE s.inv],
                target, roll, i + 1) :
             h \in { ResourceNode_harvest(s.nodes[target],
                        calculate_yield(GatherOutputs[i].base_qty, roll), One) } } : TRUE

\* ---------------------------------------------------------------------
\* SpecExec: wild plants are gathered and grow back
\* ---------------------------------------------------------------------

MaxExecCalls == 4

\* Two stands of wild plants in light forest, at 0 and at 2 along the way,
\* and small game between them; the first stand has been gathered down to
\* a little or stands full.
WildPlants(position, abundance) ==
    [resource_type |-> "wild_plants", position |-> position,
     max_abundance |-> R(30, 1), current_abundance |-> abundance,
     regeneration_rate |-> R(2, 25)]

SmallGame(position) ==
    [resource_type |-> "game_small", position |-> position,
     max_abundance |-> R(20, 1), current_abundance |-> R(20, 1),
     regeneration_rate |-> R(3, 200)]

ExecNodeIds == 1..3
ExecTargets == {1, 3}
ExecRolls == {Zero, R(1, 2), R(99, 100)}

InitExec ==
    /\ \E a \in {R(4, 1), R(30, 1)}, b \in {R(4, 1), R(30, 1)} :
          res_nodes = << WildPlants(0, a), SmallGame(1), WildPlants(2, b) >>
    /\ exec_inv = Inventory(R(FamilyInventoryCapacity, 1))
    /\ execPre = "none"
    /\ execOutcome = "none"
    /\ execCalls = 0

\* ResourceManager.daily_regeneration(season): wild plants grow at 1.3 in
\* spring and 0.2 in winter, game at 1.2 and 0.6.
DailyRegeneration ==
    /\ execCalls < MaxExecCalls
    /\ \E spring \in BOOLEAN :
          res_nodes' = [n \in ExecNodeIds |->
                          ResourceNode_regenerate(res_nodes[n],
                             IF res_nodes[n].resource_type = "wild_plants"
                             THEN (IF spring THEN R(13, 10) ELSE R(1, 5))
                             ELSE (IF spring THEN R(6, 5) ELSE R(3, 5)))]
    /\ execPre' = [nodes |-> res_nodes, inv |-> exec_inv, target |-> 0, roll |-> Zero]
    /\ execOutcome' = "ok"
    /\ execCalls' = execCalls + 1
    /\ UNCHANGED exec_inv
    /\ UNCHANGED nonExecVars

\* _execute_schedule, one gather_berries plan with target_resource_id
\* target, from the roll for success to the deposit of the yields.
ExecuteGather ==
    /\ execCalls < MaxExecCalls
    /\ \E target \in ExecTargets, roll \in ExecRolls :
          /\ execPre' = [nodes |-> res_nodes, inv |-> exec_inv, target |-> target,
                          roll |-> roll]
          /\ IF ~RLt(roll, GatherSuccessChance)
             THEN /\ execOutcome' = "ok"
                  /\ UNCHANGED <<res_nodes, exec_inv>>
             ELSE IF RLe(res_nodes[target].current_abundance, Zero)
             THEN /\ execOutcome' = get_nearest_of_type_with_rng(
                                       res_nodes, res_nodes[target].position, "wild_plants")
                  /\ UNCHANGED <<res_nodes, exec_inv>>
             ELSE \E s \in { HarvestYields([nodes |-> res_nodes, inv |-> exec_inv],
                                           target, roll, 1) } :
                     /\ res_nodes' = s.nodes
                     /\ exec_inv' = s.inv
                     /\ execOutcome' = "ok"
    /\ execCalls' = execCalls + 1
    /\ UNCHANGED nonExecVars

NextExec == DailyRegeneration \/ ExecuteGather

\* ---------------------------------------------------------------------
\* social/family.py: distribute_food in the floats the program computes
\* in
\* ---------------------------------------------------------------------

\* units_to_eat = min((needed - consumed) / food_value, quantity), every
\* operation rounded.
UnitsToEat_float(food, needed, consumed) ==
    RMin(FDiv(FSub(needed, consumed), Fl(Item_food_value(food))), food.quantity)

\* consumed += units_to_eat * food_value; quantity -= units_to_eat
EatStep_float(foods, j, consumed, units_to_eat) ==
    [foods |-> [foods EXCEPT ![j].item.quantity = FSub(@, units_to_eat)],
     consumed |-> FAdd(consumed, FMul(units_to_eat, Fl(Item_food_value(foods[j].item))))]

\* The loop over foods for one member: [foods, consumed].
RECURSIVE EatLoop_float(_, _, _, _)
EatLoop_float(foods, j, needed, consumed) ==
    IF j > Len(foods) THEN [foods |-> foods, consumed |-> consumed]
    ELSE IF \/ RLe(foods[j].item.quantity, Zero)
            \/ RLe(Item_food_value(foods[j].item), Zero)
    THEN EatLoop_float(foods, j + 1, needed, consumed)
    ELSE CHOOSE r \in
           { IF RLe(needed, n.consumed) THEN n
             ELSE EatLoop_float(n.foods, j + 1, needed, n.consumed) :
             n \in { EatStep_float(foods, j, consumed, u) :
                     u \in {UnitsToEat_float(foods[j].item, needed, consumed)} } } : TRUE

\* needed = deficit * BASE_DAILY_FOOD_NEED of a member at hunger
\* satisfaction sat.
FoodNeeded(sat) == FMul(FSub(One, sat), BaseDailyFoodNeed)

\* The loop over member_ids on the members' hunger satisfactions:
\* [members, foods, passes], passes holding the foods list before and
\* after each member's loop.
RECURSIVE FeedLoop_float(_, _, _, _)
FeedLoop_float(members, m, foods, passes) ==
    IF m > Len(members) THEN [members |-> members, foods |-> foods, passes |-> passes]
    ELSE IF RLe(FSub(One, members[m]), FeedThreshold)
    THEN FeedLoop_float(members, m + 1, foods, passes)
    ELSE CHOOSE r \in
           { FeedLoop_float(
                [members EXCEPT ![m] =
                    RMin(One, FAdd(@, FDiv(e.consumed, BaseDailyFoodNeed)))],
                m + 1, e.foods,
                Append(passes, [before |-> foods, after |-> e.foods])) :
             e \in { EatLoop_float(foods, 1, FoodNeeded(members[m]), Zero) } } : TRUE

\* Family.distribute_food(villagers_by_id): [inventory, members, passes].
distribute_food_float(iv, members) ==
    CHOOSE r \in
      { IF foods = <<>> THEN [inventory |-> iv, members |-> members, passes |-> <<>>]
        ELSE CHOOSE res \in
               { [inventory |-> CleanUp(WriteBack(iv, f.foods, 1)),
                  members |-> f.members, passes |-> f.passes] :
                 f \in {FeedLoop_float(members, 1, foods, <<>>)} } : TRUE :
        foods \in {get_all_food(iv)} } : TRUE

\* ---------------------------------------------------------------------
\* SpecEat: a family of two eats from its store day after day
\* ---------------------------------------------------------------------

MaxEatCalls == 2

\* An item that has lain for some days.
Kept(item, days) == [item EXCEPT !.days_since_created = days]

\* Grain at the end of its 180 days, berries picked today and a quarter
\* loaf of yesterday's bread.
EatStore ==
    AddAll(Inventory(R(FamilyInventoryCapacity, 1)),
           << Kept(create_item("grain", R(5, 1), R(1, 2)), 178),
              create_item("berries", R(2, 1), R(1, 2)),
              Kept(create_item("bread", R(1, 4), R(1, 2)), 1) >>)

\* Hunger satisfactions the members come to the meal with.
EatSatisfactions == { Zero, R(1, 8), R(5, 16), R(7, 16), R(45, 64), One }

InitEat ==
    /\ eat_inventory = EatStore
    /\ eat_members = << One, One >>
    /\ eatPasses = <<>>
    /\ eatCalls = 0

\* fam.distribute_food(villagers_by_id), the members as hungry as the
\* day has made them.
DistributeFoodFloat ==
    /\ eatCalls < MaxEatCalls
    /\ \E a \in EatSatisfactions, b \in EatSatisfactions :
          \E r \in { distribute_food_float(eat_inventory, << a, b >>) } :
             /\ eat_inventory' = r.inventory
             /\ eat_members' = r.members
             /\ eatPasses' = r.passes
    /\ eatCalls' = eatCalls + 1
    /\ UNCHANGED nonEatVars

NextEat == DistributeFoodFloat

\* ---------------------------------------------------------------------
\* social/family.py: FamilyManager and the marriages of _process_lifecycle
\* ---------------------------------------------------------------------

\* Family.remove_member leaving the member in the list.
remove_member_Kept(fam, villager_id) == fam

\* Family.remove_member: [member_ids, head_of_household].
remove_member(fam, villager_id) ==
    [member_ids |-> SelectSeq(fam.member_ids, LAMBDA x : x # villager_id),
     head_of_household |->
        IF /\ fam.head_of_household = villager_id
           /\ SelectSeq(fam.member_ids, LAMBDA x : x # villager_id) # <<>>
        THEN SelectSeq(fam.member_ids, LAMBDA x : x # villager_id)[1]
        ELSE fam.head_of_household]

\* Family.add_member on a family record.
Family_add_member(fam, villager_id) ==
    [fam EXCEPT !.member_ids = add_member(@, villager_id)]

\* self.families.get(family_id) is not None
HasFamily(families, family_id) == family_id \in DOMAIN families

\* The branch of form_marriage for a couple from two families, on
\* k = [vs, families, next_id]: B leaves its family for A's, and B's
\* family is deleted if that leaves it without members.
MoveIntoFamily(k, a, b) ==
    [k EXCEPT
       !.vs[b].family_id = k.vs[a].family_id,
       !.families =
          [f \in IF remove_member(k.families[k.vs[b].family_id], b).member_ids = <<>>
                 THEN DOMAIN k.families \ {k.vs[b].family_id}
                 ELSE DOMAIN k.families |->
             IF f = k.vs[a].family_id THEN Family_add_member(k.families[f], b)
             ELSE IF f = k.vs[b].family_id THEN remove_member(k.families[f], b)
             ELSE k.families[f]]]

\* FamilyManager.create_family(founding_members)
create_family(k, founding_members) ==
    [k EXCEPT
       !.families = [f \in DOMAIN k.families \cup {k.next_id} |->
                       IF f = k.next_id
                       THEN [member_ids |-> founding_members,
                             head_of_household |-> founding_members[1]]
                       ELSE k.families[f]],
       !.next_id = @ + 1]

\* FamilyManager.form_marriage(villager_a, villager_b)
form_marriage(k, a, b) ==
    IF /\ HasFamily(k.families, k.vs[a].family_id)
       /\ HasFamily(k.families, k.vs[b].family_id)
       /\ k.vs[a].family_id # k.vs[b].family_id
    THEN MoveIntoFamily(k, a, b)
    ELSE IF HasFamily(k.families, k.vs[a].family_id)
    THEN [k EXCEPT !.vs[b].family_id = k.vs[a].family_id,
                   !.families[k.vs[a].family_id] = Family_add_member(@, b)]
    ELSE create_family(k, <<a, b>>)

\* A marriage that sets the proposer's spouse_id alone.
Married_OneSided(k, v, partner) == form_marriage([k EXCEPT !.vs[v].spouse_id = partner], v, partner)

\* _process_lifecycle, one marriage: the spouse ids are set and the
\* family manager is told.
Married(k, v, partner) ==
    form_marriage([k EXCEPT !.vs[v].spouse_id = partner,
                            !.vs[partner].spouse_id = v], v, partner)

\* ---------------------------------------------------------------------
\* SpecKin: the grown children of three families marry
\* ---------------------------------------------------------------------

MaxKinCalls == 3

KinVillager(sex, family_id) ==
    [sex |-> sex, is_alive |-> TRUE, spouse_id |-> 0, family_id |-> family_id, age_years |-> 20]

\* A couple as _assign_marriages pairs it, and a child of theirs.
KinSpouse(sex, family_id, spouse_id) == [KinVillager(sex, family_id) EXCEPT !.spouse_id = spouse_id, !.age_years = 30]

KinChild(sex, family_id, years) == [KinVillager(sex, family_id) EXCEPT !.age_years = years]

\* Four families as build_from_villagers makes them: two sisters and
\* their brother, a woman and her brother, a man on his own, and a
\* married couple with a daughter of twelve.
KinVillagers ==
    << KinVillager("female", 0), KinVillager("female", 0), KinVillager("male", 0),
       KinVillager("female", 1), KinVillager("male", 1), KinVillager("male", 2),
       KinSpouse("male", 3, 8), KinSpouse("female", 3, 7), KinChild("female", 3, 12) >>

KinIds == <<1, 2, 3, 4, 5, 6, 7, 8, 9>>

KinFamilies ==
    [f \in 0..3 |->
       [member_ids |-> SelectSeq(KinIds, LAMBDA id : KinVillagers[id].family_id = f),
        head_of_household |-> SelectSeq(KinIds, LAMBDA id : KinVillagers[id].family_id = f)[1]]]

InitKin ==
    /\ kin = [vs |-> KinVillagers, families |-> KinFamilies, next_id |-> 4]
    /\ kinPre = "none"
    /\ kinCalls = 0

\* _process_lifecycle: a living unmarried woman of sixteen or more marries
\* a living unmarried man of sixteen or more among her friends.
Marry ==
    /\ kinCalls < MaxKinCalls
    /\ \E v \in 1..Len(kin.vs), partner \in 1..Len(kin.vs) :
          /\ kin.vs[v].is_alive /\ kin.vs[v].spouse_id = 0 /\ kin.vs[v].age_years >= 16
          /\ kin.vs[v].sex = "female"
          /\ kin.vs[partner].is_alive /\ kin.vs[partner].spouse_id = 0
          /\ kin.vs[partner].sex # kin.vs[v].sex /\ kin.vs[partner].age_years >= 16
          /\ kin' = Married(kin, v, partner)
          /\ kinPre' = [k |-> kin, a |-> v, b |-> partner]
    /\ kinCalls' = kinCalls + 1
    /\ UNCHANGED nonKinVars

\* Villager.die: the villager stays a member of its family.
KinDeath ==
    /\ kinCalls < MaxKinCalls
    /\ \E v \in 1..Len(kin.vs) :
          /\ kin.vs[v].is_alive
          /\ kin' = [kin EXCEPT !.vs[v].is_alive = FALSE]
          /\ kinPre' = [k |-> kin, a |-> 0, b |-> 0]
    /\ kinCalls' = kinCalls + 1
    /\ UNCHANGED nonKinVars

\* The births of SpecKin.
MaxKinBirths == 1

\* A birth that leaves the child out of its family's member list.
Born_Unlisted(k, mother, sex) == [k EXCEPT !.vs = Append(@, KinChild(sex, k.vs[mother].family_id, 0))]

\* _process_lifecycle, a birth: give_birth hands the child its mother's
\* family_id, the child joins the registry under the next id and, if the
\* family manager knows the family, its member list.
Born(k, mother, sex) ==
    [k EXCEPT !.vs = Append(@, KinChild(sex, k.vs[mother].family_id, 0)),
              !.families = [f \in DOMAIN @ |-> IF f = k.vs[mother].family_id THEN Family_add_member(@[f], Len(k.vs) + 1) ELSE @[f]]]

KinBirth ==
    /\ kinCalls < MaxKinCalls
    /\ Len(kin.vs) < Len(KinVillagers) + MaxKinBirths
    /\ \E mother \in 1..Len(kin.vs), sex \in {"male", "female"} :
          /\ kin.vs[mother].is_alive /\ kin.vs[mother].sex = "female" /\ kin.vs[mother].spouse_id # 0
          /\ kin' = Born(kin, mother, sex)
          /\ kinPre' = [k |-> kin, a |-> 0, b |-> 0]
    /\ kinCalls' = kinCalls + 1
    /\ UNCHANGED nonKinVars

NextKin == Marry \/ KinDeath \/ KinBirth

\* ---------------------------------------------------------------------
\* Relationships (social/relationships.py, social/influence.py): the
\* store of pairwise records, interactions, daily decay and gossip.
\* ---------------------------------------------------------------------

RELATIONSHIP_DECAY_RATE == R(1, 1000)

TRUST_GAIN_PER_POSITIVE == R(1, 20)

TRUST_LOSS_PER_NEGATIVE_AsGain == R(1, 20)

TRUST_LOSS_PER_NEGATIVE == R(1, 10)

\* Relationship(villager_a_id, villager_b_id) with the dataclass defaults.
Relationship(a, b) == [villager_a_id |-> a, villager_b_id |-> b, trust |-> Zero, affinity |-> Zero, familiarity |-> Zero, interaction_count |-> 0, last_interaction_day |-> 0]

positive_interaction(r, magnitude) ==
    [r EXCEPT !.trust = RMin(One, RAdd(@, RMul(TRUST_GAIN_PER_POSITIVE, magnitude))),
              !.affinity = RMin(One, RAdd(@, RMul(R(3, 100), magnitude))),
              !.familiarity = RMin(One, RAdd(@, R(1, 50))),
              !.interaction_count = @ + 1]

negative_interaction(r, magnitude) ==
    [r EXCEPT !.trust = RMax(RNeg(One), RSub(@, RMul(TRUST_LOSS_PER_NEGATIVE, magnitude))),
              !.affinity = RMax(RNeg(One), RSub(@, RMul(R(3, 50), magnitude))),
              !.interaction_count = @ + 1]

\* decay = RELATIONSHIP_DECAY_RATE * days_since
DecayOf(days_since) == RMul(RELATIONSHIP_DECAY_RATE, R(days_since, 1))

Decayed_AnyTrust(r, decay) ==
    [r EXCEPT !.affinity = RMul(@, RMax(Zero, RSub(One, decay))),
              !.familiarity = RMul(@, RMax(Zero, RSub(One, RMul(decay, R(1, 2))))),
              !.trust = RMax(Zero, RSub(@, RMul(decay, R(1, 10))))]

Decayed(r, decay) ==
    [r EXCEPT !.affinity = RMul(@, RMax(Zero, RSub(One, decay))),
              !.familiarity = RMul(@, RMax(Zero, RSub(One, RMul(decay, R(1, 2))))),
              !.trust = IF RLt(Zero, @) THEN RMax(Zero, RSub(@, RMul(decay, R(1, 10)))) ELSE @]

Relationship_daily_decay(r, current_day) ==
    IF current_day - r.last_interaction_day > 0
    THEN Decayed(r, DecayOf(current_day - r.last_interaction_day))
    ELSE r

_pair_key_Ordered(a, b) == <<a, b>>

_pair_key(a, b) == <<IF a <= b THEN a ELSE b, IF a <= b THEN b ELSE a>>

\* The store is the dict _relationships: key -> Relationship.
NoRelationships == [k \in {} |-> Relationship(0, 0)]

WithRecord(store, key) == [k \in DOMAIN store \cup {key} |-> IF k \in DOMAIN store THEN store[k] ELSE Relationship(key[1], key[2])]

\* get_or_create returns the record under the key; the store it leaves.
get_or_create(store, a_id, b_id) == WithRecord(store, _pair_key(a_id, b_id))

Interacted(r, positive, magnitude, day) ==
    IF positive
    THEN positive_interaction([r EXCEPT !.last_interaction_day = day], magnitude)
    ELSE negative_interaction([r EXCEPT !.last_interaction_day = day], magnitude)

UpdatedAt(store, key, positive, magnitude, day) == [store EXCEPT ![key] = Interacted(@, positive, magnitude, day)]

record_interaction(store, a_id, b_id, positive, magnitude, day) ==
    UpdatedAt(get_or_create(store, a_id, b_id), _pair_key(a_id, b_id), positive, magnitude, day)

daily_decay_all(store, current_day) == [k \in DOMAIN store |-> Relationship_daily_decay(store[k], current_day)]

\* influence of the source on the target; sociability is one of the
\* source's traits.
Influence(r, sociability) ==
    RAdd(RAdd(RMul(r.trust, R(1, 2)), RMul(r.familiarity, R(3, 10))), RMul(R(sociability, 100), R(1, 5)))

Shifted(store, key, shift) == [store EXCEPT ![key].affinity = RMax(RNeg(One), RMin(One, RAdd(@, shift)))]

Gossip(store, source, target, about_id, opinion_value, influence, roll) ==
    IF RLt(roll, influence)
    THEN Shifted(get_or_create(store, target, about_id), _pair_key(target, about_id), RMul(RMul(opinion_value, influence), R(3, 10)))
    ELSE store

SpreadFrom(store, source, target, about_id, opinion_value, sociability, roll) ==
    IF RLt(store[_pair_key(source, target)].trust, R(1, 10))
    THEN store
    ELSE Gossip(store, source, target, about_id, opinion_value, Influence(store[_pair_key(source, target)], sociability), roll)

spread_opinion(store, source, target, about_id, opinion_value, sociability, roll) ==
    SpreadFrom(get_or_create(store, source, target), source, target, about_id, opinion_value, sociability, roll)

MaxRelCalls == 3

\* One entry of the log of calls: the store and the day before the call,
\* and the call.
RelCall(store, op, a, b, magnitude) == [store |-> store, day |-> rel_day, op |-> op, a |-> a, b |-> b, magnitude |-> magnitude]

RelIds == 1..3

\* Ordered pairs of villagers handed to record_interaction.
RelPairs == {<<1, 2>>, <<2, 1>>, <<2, 3>>}

RelMagnitudes == {Zero, One, R(12, 1)}

\* Days that pass before a decay: none, or long stretches without contact.
RelDaySteps == {0, 500, 2500}

RelOpinions == {R(-5, 1), R(5, 1)}

RelRolls == {Zero, R(99, 100)}

RelSociability == 50

InitRel ==
    /\ rel_store = NoRelationships
    /\ rel_day = 1
    /\ rel_alive = RelIds
    /\ relLog = <<>>
    /\ relCalls = 0

\* _execute_social_actions and _execute_trade_phase: two living villagers
\* interact today.
RecordInteraction ==
    /\ relCalls < MaxRelCalls
    /\ \E p \in RelPairs, positive \in BOOLEAN, magnitude \in RelMagnitudes :
          /\ p[1] \in rel_alive /\ p[2] \in rel_alive
          /\ rel_store' = record_interaction(rel_store, p[1], p[2], positive, magnitude, rel_day)
          /\ relLog' = Append(relLog, RelCall(rel_store, IF positive THEN "positive" ELSE "negative", p[1], p[2], magnitude))
    /\ relCalls' = relCalls + 1
    /\ UNCHANGED <<rel_day, rel_alive>>
    /\ UNCHANGED nonRelVars

\* Stage 11: daily_decay_all on a later day.
DailyDecayAll ==
    /\ relCalls < MaxRelCalls
    /\ \E step \in RelDaySteps :
          /\ rel_day' = rel_day + step
          /\ rel_store' = daily_decay_all(rel_store, rel_day + step)
    /\ relLog' = Append(relLog, RelCall(rel_store, "decay", 0, 0, Zero))
    /\ relCalls' = relCalls + 1
    /\ UNCHANGED rel_alive
    /\ UNCHANGED nonRelVars

\* Villager 1 tells villager 2 an opinion about villager 3.
SpreadOpinion ==
    /\ relCalls < MaxRelCalls
    /\ \E opinion_value \in RelOpinions, roll \in RelRolls :
          /\ rel_store' = spread_opinion(rel_store, 1, 2, 3, opinion_value, RelSociability, roll)
          /\ relLog' = Append(relLog, RelCall(rel_store, "opinion", 2, 3, Zero))
    /\ relCalls' = relCalls + 1
    /\ UNCHANGED <<rel_day, rel_alive>>
    /\ UNCHANGED nonRelVars

\* Villager.die: nothing in the store is touched.
RelDeath ==
    /\ relCalls < MaxRelCalls
    /\ \E v \in rel_alive :
          /\ rel_alive' = rel_alive \ {v}
          /\ relLog' = Append(relLog, RelCall(rel_store, "death", v, v, Zero))
    /\ relCalls' = relCalls + 1
    /\ UNCHANGED <<rel_store, rel_day>>
    /\ UNCHANGED nonRelVars

NextRel == RecordInteraction \/ DailyDecayAll \/ SpreadOpinion \/ RelDeath

\* ---------------------------------------------------------------------
\* economy/trade.py: _get_surplus, _get_deficits and generate_offer.  The
\* dicts surplus, deficits, offering and requesting are sequences of
\* <<item_type, quantity>> entries in insertion order.
\* ---------------------------------------------------------------------

TRADE_SURPLUS_DAYS_THRESHOLD == 5

TRADE_DEFICIT_DAYS_THRESHOLD == 3

TRADE_PERSONALITY_MARGIN == R(3, 20)

\* The threshold 0.01 below which a quantity is not traded.
TradeDust == R(1, 100)

\* sum(s.quantity for s in stacks)
StackTotal(stacks) == SumSeq([i \in 1..Len(stacks) |-> stacks[i].quantity])

HasEntry(entries, item_type) == \E i \in 1..Len(entries) : entries[i][1] = item_type

\* d[item_type] of a dict that holds the key
EntryOf(entries, item_type) == entries[CHOOSE i \in 1..Len(entries) : entries[i][1] = item_type][2]

\* needed_qty = remaining_food_need / max(0.01, food_val)
FoodKept(item_type, remaining) == RDiv(remaining, RMax(R(1, 100), Catalog(item_type).food_value))

\* The branches of the loop of _get_surplus for one item type.
SurplusEntry(item_type, total_qty, remaining) ==
    IF RLt(Zero, Catalog(item_type).food_value)
    THEN IF RLt(R(1, 2), RSub(total_qty, FoodKept(item_type, remaining)))
         THEN << <<item_type, RSub(total_qty, FoodKept(item_type, remaining))>> >>
         ELSE <<>>
    ELSE IF Catalog(item_type).tool_type # ""
         THEN IF RLt(One, total_qty) THEN << <<item_type, RSub(total_qty, One)>> >> ELSE <<>>
         ELSE IF RLt(R(5, 1), total_qty) THEN << <<item_type, RSub(total_qty, R(5, 1))>> >> ELSE <<>>

\* remaining_food_need after the item type
RemainingAfter(item_type, total_qty, remaining) ==
    IF RLt(Zero, Catalog(item_type).food_value)
    THEN RSub(remaining, RMul(RMin(total_qty, FoodKept(item_type, remaining)), Catalog(item_type).food_value))
    ELSE remaining

RECURSIVE SurplusFrom(_, _, _)
SurplusFrom(iv, i, remaining) ==
    IF i > Len(iv.items) THEN <<>>
    ELSE IF RLe(StackTotal(iv.items[i].stacks), TradeDust)
         THEN SurplusFrom(iv, i + 1, remaining)
         ELSE SurplusEntry(iv.items[i].item_type, StackTotal(iv.items[i].stacks), remaining)
              \o SurplusFrom(iv, i + 1, RemainingAfter(iv.items[i].item_type, StackTotal(iv.items[i].stacks), remaining))

_get_surplus(villager, iv) == SurplusFrom(iv, 1, RMul(BaseDailyFoodNeed, R(TRADE_SURPLUS_DAYS_THRESHOLD, 1)))

\* food_need of _get_deficits
DeficitFoodNeed == RMul(BaseDailyFoodNeed, R(TRADE_DEFICIT_DAYS_THRESHOLD, 1))

\* The loop over the preferred foods stops at the first, grain.
FoodDeficit(iv) ==
    IF RLt(total_food_value(iv), DeficitFoodNeed)
    THEN << <<"grain", RDiv(RSub(DeficitFoodNeed, total_food_value(iv)), Catalog("grain").food_value)>> >>
    ELSE <<>>

\* needed_tools; the order the set is walked in changes the order of the
\* entries only.
needed_tools == <<"axe", "knife", "spear", "farming", "fishing">>

\* The first item of ITEM_CATALOG with the tool type.
FirstOfToolType(tool_type) == CatalogOrder[CHOOSE i \in 1..Len(CatalogOrder) : Catalog(CatalogOrder[i]).tool_type = tool_type /\ \A j \in 1..(i - 1) : Catalog(CatalogOrder[j]).tool_type # tool_type]

RECURSIVE ToolDeficitsFrom(_, _, _)
ToolDeficitsFrom(villager, iv, i) ==
    IF i > Len(needed_tools) THEN <<>>
    ELSE (IF HasTool(villager, needed_tools[i], iv) THEN <<>> ELSE << <<FirstOfToolType(needed_tools[i]), One>> >>)
         \o ToolDeficitsFrom(villager, iv, i + 1)

ClothingDeficit(villager, iv) ==
    IF RLt(villager.needs["warmth"].satisfaction, R(2, 5)) /\ RLt(total_of(iv, "clothing"), One)
    THEN << <<"clothing", One>> >> ELSE <<>>

MedicineDeficit(villager, iv) ==
    IF villager.health < 70 /\ RLt(total_of(iv, "medicine"), One)
    THEN << <<"medicine", One>> >> ELSE <<>>

_get_deficits(villager, iv) ==
    FoodDeficit(iv) \o ToolDeficitsFrom(villager, iv, 1) \o ClothingDeficit(villager, iv) \o MedicineDeficit(villager, iv)

\* The first loop of generate_offer: surplus items the partner is taken
\* to lack.
RECURSIVE MatchedOffering(_, _, _)
MatchedOffering(surplus, deficits, i) ==
    IF i > Len(surplus) THEN <<>>
    ELSE (IF HasEntry(deficits, surplus[i][1]) /\ RLt(TradeDust, RMin(surplus[i][2], EntryOf(deficits, surplus[i][1])))
          THEN << <<surplus[i][1], RMin(surplus[i][2], EntryOf(deficits, surplus[i][1]))>> >>
          ELSE <<>>)
         \o MatchedOffering(surplus, deficits, i + 1)

\* max(my_surplus.keys(), key=...): the first of the largest.
BestSurplus(surplus) == CHOOSE i \in 1..Len(surplus) : (\A j \in 1..Len(surplus) : RLe(surplus[j][2], surplus[i][2])) /\ (\A j \in 1..(i - 1) : RLt(surplus[j][2], surplus[i][2]))

HalfOf(entry) == RMin(entry[2], RMul(entry[2], R(1, 2)))

FallbackOffering(surplus) ==
    IF RLt(TradeDust, HalfOf(surplus[BestSurplus(surplus)]))
    THEN << <<surplus[BestSurplus(surplus)][1], HalfOf(surplus[BestSurplus(surplus)])>> >>
    ELSE <<>>

Offering(surplus, deficits) ==
    IF MatchedOffering(surplus, deficits, 1) # <<>> THEN MatchedOffering(surplus, deficits, 1) ELSE FallbackOffering(surplus)

\* The sum of subjective_value(villager, item_type, quantity, iv) over
\* the entries.
RECURSIVE EntriesValue(_, _, _, _)
EntriesValue(villager, entries, iv, i) ==
    IF i > Len(entries) THEN Zero
    ELSE RAdd(subjective_value(villager, entries[i][1], entries[i][2], iv), EntriesValue(villager, entries, iv, i + 1))

\* req_qty = min(qty, est_partner_has * 0.5)
AskedOf(deficit, partner_inv_estimate) == RMin(deficit[2], RMul(total_of(partner_inv_estimate, deficit[1]), R(1, 2)))

RECURSIVE RequestedFromDeficits(_, _, _)
RequestedFromDeficits(deficits, partner_inv_estimate, i) ==
    IF i > Len(deficits) THEN <<>>
    ELSE (IF RLt(Zero, total_of(partner_inv_estimate, deficits[i][1])) /\ RLt(TradeDust, AskedOf(deficits[i], partner_inv_estimate))
          THEN << <<deficits[i][1], AskedOf(deficits[i], partner_inv_estimate)>> >>
          ELSE <<>>)
         \o RequestedFromDeficits(deficits, partner_inv_estimate, i + 1)

\* The loop over partner_surplus, left at the first item requested.
RECURSIVE FallbackRequest(_, _, _)
FallbackRequest(partner_surplus, offering, i) ==
    IF i > Len(partner_surplus) THEN <<>>
    ELSE IF ~HasEntry(offering, partner_surplus[i][1]) /\ RLt(TradeDust, RMul(partner_surplus[i][2], R(3, 10)))
         THEN << <<partner_surplus[i][1], RMin(RMul(partner_surplus[i][2], R(3, 10)), partner_surplus[i][2])>> >>
         ELSE FallbackRequest(partner_surplus, offering, i + 1)

\* requesting before it is rescaled
Requesting(villager, partner, villager_inv, partner_inv_estimate, offering) ==
    IF RequestedFromDeficits(_get_deficits(villager, villager_inv), partner_inv_estimate, 1) # <<>>
    THEN RequestedFromDeficits(_get_deficits(villager, villager_inv), partner_inv_estimate, 1)
    ELSE FallbackRequest(_get_surplus(partner, partner_inv_estimate), offering, 1)

ambition_factor(villager) == RAdd(One, RMul(RDiv(R(villager.traits["ambition"] - 50, 1), R(100, 1)), TRADE_PERSONALITY_MARGIN))

Rescaled_Unbounded(requesting, value_ratio) == [i \in 1..Len(requesting) |-> <<requesting[i][1], RMul(requesting[i][2], value_ratio)>>]

\* requesting[item_type] = min(requesting[item_type] * value_ratio, requesting[item_type])
Rescaled(requesting, value_ratio) == [i \in 1..Len(requesting) |-> <<requesting[i][1], RMin(RMul(requesting[i][2], value_ratio), requesting[i][2])>>]

RescaledRequest(villager, requesting, offer_value, request_value) ==
    IF RLt(Zero, request_value) /\ RLt(Zero, offer_value)
    THEN Rescaled(requesting, RDiv(RMul(offer_value, ambition_factor(villager)), request_value))
    ELSE requesting

OfferFrom(villager, partner, villager_inv, offering, requesting, offer_value) ==
    IF offering = <<>> \/ RLt(offer_value, R(1, 10)) THEN None
    ELSE IF requesting = <<>> THEN None
    ELSE TradeOffer(offering, RescaledRequest(villager, requesting, offer_value, EntriesValue(villager, requesting, villager_inv, 1)), villager.id, partner.id)

OfferOf(villager, partner, villager_inv, partner_inv_estimate, offering) ==
    OfferFrom(villager, partner, villager_inv, offering, Requesting(villager, partner, villager_inv, partner_inv_estimate, offering), EntriesValue(partner, offering, partner_inv_estimate, 1))

generate_offer(villager, partner, villager_inv, partner_inv_estimate) ==
    IF _get_surplus(villager, villager_inv) = <<>> THEN None
    ELSE OfferOf(villager, partner, villager_inv, partner_inv_estimate, Offering(_get_surplus(villager, villager_inv), _get_deficits(partner, partner_inv_estimate)))

\* ---------------------------------------------------------------------
\* SpecOffer: generate_offer for proposers that differ in ambition only
\* ---------------------------------------------------------------------

Ambitions == {0, 25, 50, 75, 100}

\* A villager in good health with the default traits but for ambition.
Trader(id, ambition, hunger_sat) ==
    [id |-> id, health |-> 100,
     needs |-> [NeedSystem EXCEPT !["hunger"].satisfaction = hunger_sat],
     traits |-> [t \in TraitNames |-> IF t = "ambition" THEN ambition ELSE 50],
     personal_inventory |-> Inventory(R(30, 1)),
     skill_experience |-> ExperienceAfter(0, "hunting", 50)]

\* The proposer's stores: every needed tool but perhaps the axe, firewood
\* beyond the five units kept, and little or no grain.
ProposerStore(axes, firewood, grain) ==
    AddAll(Inventory(R(FamilyInventoryCapacity, 1)),
           (IF axes > 0 THEN <<create_item("stone_axe", R(axes, 1), R(1, 2))>> ELSE <<>>)
           \o <<create_item("stone_knife", One, R(1, 2)), create_item("wooden_spear", One, R(1, 2)),
                create_item("fishing_rod", One, R(1, 2)), create_item("hoe", One, R(1, 2)),
                create_item("firewood", R(firewood, 1), R(1, 2))>>
           \o (IF grain > 0 THEN <<create_item("grain", R(grain, 1), R(1, 2))>> ELSE <<>>))

ProposerStores == {ProposerStore(axes, firewood, grain) : axes \in {0, 1}, firewood \in {7, 9, 15}, grain \in {0, 2, 20}}

\* What the proposer takes the partner to hold.
PartnerStore(axes, grain) ==
    AddAll(Inventory(R(FamilyInventoryCapacity, 1)),
           (IF axes > 0 THEN <<create_item("stone_axe", R(axes, 1), R(1, 2))>> ELSE <<>>)
           \o <<create_item("stone_knife", One, R(1, 2))>>
           \o (IF grain > 0 THEN <<create_item("grain", R(grain, 1), R(1, 2))>> ELSE <<>>))

PartnerStores == {PartnerStore(axes, grain) : axes \in {0, 3}, grain \in {0, 4, 100}}

OfferHungers == {R(3, 10), R(9, 10)}

InitOffer ==
    /\ offer_hunger \in OfferHungers
    /\ offer_inv \in ProposerStores
    /\ offer_partner_inv \in PartnerStores
    /\ offer_results = <<>>

\* One call per ambition, nothing else changed; with each offer the
\* requesting dict as it was before the rescaling.
Unscaled(villager, partner, villager_inv, partner_inv_estimate) ==
    Requesting(villager, partner, villager_inv, partner_inv_estimate, Offering(_get_surplus(villager, villager_inv), _get_deficits(partner, partner_inv_estimate)))

GenerateOffer ==
    /\ offer_results = <<>>
    /\ offer_results' =
         [a \in Ambitions |->
            [offer |-> generate_offer(Trader(1, a, offer_hunger), Trader(2, 50, One), offer_inv, offer_partner_inv),
             unscaled |-> Unscaled(Trader(1, a, offer_hunger), Trader(2, 50, One), offer_inv, offer_partner_inv)]]
    /\ UNCHANGED <<offer_hunger, offer_inv, offer_partner_inv>>
    /\ UNCHANGED nonOfferVars

NextOffer == GenerateOffer

\* ---------------------------------------------------------------------
\* world/crops.py and the farming of simulation/engine.py: CropPlot,
\* CropManager, the dawn update of tick and _handle_farming.
\* ---------------------------------------------------------------------

CROP_GROWTH_DAYS == 90

CROP_FAILURE_FROST_THRESHOLD == 15

\* The bonus of a tended day (0.02).
TendingBonus == R(1, 50)

\* CropPlot(position, family_id, planted_day) with the dataclass defaults.
CropPlot(position, family_id, planted_day) ==
    [position |-> position, family_id |-> family_id, planted_day |-> planted_day,
     crop_stage |-> "planted", quality |-> R(1, 2), expected_yield |-> R(10, 1),
     days_growing |-> 0, times_tended |-> 0]

\* Climate.crop_growth_modifier
crop_growth_modifier(climate) ==
    RMul(CASE climate.current_weather = "rain" -> R(6, 5)
           [] climate.current_weather = "storm" -> R(3, 5)
           [] climate.current_weather = "heat_wave" -> R(1, 2)
           [] climate.current_weather = "snow" -> Zero
           [] OTHER -> One,
         IF climate.temperature < 15 THEN R(1, 10)
         ELSE IF climate.temperature > 80 THEN R(3, 5) ELSE One)

\* The stage for the days grown: growth_frac = days_growing / CROP_GROWTH_DAYS
StageAt(days_growing) ==
    IF 10 * days_growing < 3 * CROP_GROWTH_DAYS THEN "planted"
    ELSE IF 10 * days_growing < 7 * CROP_GROWTH_DAYS THEN "growing"
    ELSE IF days_growing < CROP_GROWTH_DAYS THEN "mature"
    ELSE "harvestable"

\* Tending improves quality
Tended(plot, was_tended_today) ==
    IF was_tended_today
    THEN [plot EXCEPT !.times_tended = @ + 1, !.quality = RMin(One, RAdd(@, TendingBonus))]
    ELSE plot

\* Weather affects quality
Weathered(plot, climate) ==
    [plot EXCEPT !.quality = RMax(Zero, RMin(One, RAdd(@, RMul(RSub(crop_growth_modifier(climate), R(4, 5)), R(1, 100)))))]

\* The stage transition and the expected yield
Staged(plot) ==
    [plot EXCEPT !.crop_stage = StageAt(plot.days_growing),
                 !.expected_yield = RMul(RMul(R(10, 1), plot.quality), RAdd(One, RMul(R(1, 10), R(plot.times_tended, 1))))]

\* CropPlot.daily_growth
daily_growth(plot, climate, was_tended_today) ==
    IF plot.crop_stage = "failed" THEN plot
    ELSE IF climate.temperature < CROP_FAILURE_FROST_THRESHOLD /\ plot.crop_stage # "harvestable"
         THEN [plot EXCEPT !.days_growing = @ + 1, !.crop_stage = "failed"]
         ELSE Staged(Weathered(Tended([plot EXCEPT !.days_growing = @ + 1], was_tended_today), climate))

\* CropManager.daily_update
CropManager_daily_update(plots, climate, tended_positions) ==
    [i \in 1..Len(plots) |-> daily_growth(plots[i], climate, plots[i].position \in tended_positions)]

\* CropManager.get_harvestable(family_id)
get_harvestable(plots, family_id) == SelectSeq(plots, LAMBDA p : p.crop_stage = "harvestable" /\ p.family_id = family_id)

\* CropManager.get_family_plots
get_family_plots(plots, family_id) == SelectSeq(plots, LAMBDA p : p.family_id = family_id /\ p.crop_stage # "failed")

\* list.remove(plot): the first plot equal to it goes.
RemoveFirst(plots, plot) ==
    IF \E i \in 1..Len(plots) : plots[i] = plot
    THEN [i \in 1..(Len(plots) - 1) |-> IF i < (CHOOSE j \in 1..Len(plots) : plots[j] = plot /\ \A k \in 1..(j - 1) : plots[k] # plot) THEN plots[i] ELSE plots[i + 1]]
    ELSE plots

\* CropManager.remove_harvested
remove_harvested(plots, plot) == RemoveFirst(plots, plot)

\* CropManager.cleanup_failed: the plots kept
cleanup_failed(plots) == SelectSeq(plots, LAMBDA p : p.crop_stage # "failed")

\* The loop of farm_harvest over the harvestable plots: [plots, inventory].
RECURSIVE HarvestLoop(_, _, _)
HarvestLoop(plots, iv, harvestable) ==
    IF harvestable = <<>> THEN [plots |-> plots, inventory |-> iv]
    ELSE HarvestLoop(remove_harvested(plots, Head(harvestable)),
                     Inventory_add(Inventory_add(iv, create_item("grain", Head(harvestable).expected_yield, R(1, 2))).inv,
                                   create_item("vegetables", RMul(Head(harvestable).expected_yield, R(1, 2)), R(1, 2))).inv,
                     Tail(harvestable))

\* The position of the nearest farmland.
Farmland == <<3, 4>>

\* _handle_farming for a villager of the family: [plots, inventory,
\* tended_positions].
_handle_farming(plots, iv, tended_positions, family_id, activity, success, day) ==
    IF activity = "farm_plant" /\ success
    THEN [plots |-> Append(plots, CropPlot(Farmland, family_id, day)), inventory |-> iv, tended_positions |-> tended_positions]
    ELSE IF activity = "farm_tend"
    THEN [plots |-> plots, inventory |-> iv,
          tended_positions |-> tended_positions \cup {get_family_plots(plots, family_id)[i].position : i \in 1..Len(get_family_plots(plots, family_id))}]
    ELSE IF activity = "farm_harvest" /\ success
    THEN [plots |-> HarvestLoop(plots, iv, get_harvestable(plots, family_id)).plots,
          inventory |-> HarvestLoop(plots, iv, get_harvestable(plots, family_id)).inventory,
          tended_positions |-> tended_positions]
    ELSE [plots |-> plots, inventory |-> iv, tended_positions |-> tended_positions]

\* ---------------------------------------------------------------------
\* SpecCrop: days of one farming family and a neighbour's plot
\* ---------------------------------------------------------------------

MaxCropTicks == 3

\* The family that farms, and a neighbour.
FarmingFamily == 0

OtherFamily == 1

\* A plot as clear mild days leave it after the given number of days.
GrownPlot(position, family_id, days) ==
    [CropPlot(position, family_id, 1) EXCEPT
        !.days_growing = days, !.crop_stage = StageAt(days),
        !.quality = RMin(One, RAdd(R(1, 2), RMul(R(days, 1), R(1, 500)))),
        !.expected_yield = RMul(R(10, 1), RMin(One, RAdd(R(1, 2), RMul(R(days, 1), R(1, 500)))))]

\* Days just before a change of stage.
CropAges == {1, 26, 62, 89}

CropFields ==
    {<<>>} \cup {<<GrownPlot(Farmland, FarmingFamily, d)>> : d \in CropAges}
           \cup {<<GrownPlot(Farmland, FarmingFamily, d), GrownPlot(<<5, 5>>, OtherFamily, 89)>> : d \in CropAges}

Climates == {[temperature |-> t, current_weather |-> w] : t \in {10, 60}, w \in {"clear", "rain"}}

FarmWork == {<<"rest", TRUE>>, <<"farm_plant", TRUE>>, <<"farm_tend", TRUE>>, <<"farm_tend", FALSE>>, <<"farm_harvest", TRUE>>}

InitCrop ==
    /\ crop_plots \in CropFields
    /\ crop_inventory = Inventory(R(FamilyInventoryCapacity, 1))
    /\ crop_day = 100
    /\ cropLog = <<>>

\* One tick as the crops see it: the dawn update (stage 1), then the
\* farming of the family's villager (stage 5); tended_positions is a local
\* of the tick.
CropDay(before, dawn, work, farmed) ==
    [before |-> before, dawn |-> dawn, activity |-> work[1], success |-> work[2],
     tended_positions |-> farmed.tended_positions, end |-> farmed.plots]

CropTick ==
    /\ Len(cropLog) < MaxCropTicks
    /\ \E climate \in Climates, work \in FarmWork :
         \E dawn \in {CropManager_daily_update(crop_plots, climate, {})} :
           \E farmed \in {_handle_farming(dawn, crop_inventory, {}, FarmingFamily, work[1], work[2], crop_day + 1)} :
              /\ crop_plots' = farmed.plots
              /\ crop_inventory' = farmed.inventory
              /\ cropLog' = Append(cropLog, CropDay(crop_plots, dawn, work, farmed))
    /\ crop_day' = crop_day + 1
    /\ UNCHANGED nonCropVars

NextCrop == CropTick

\* ---------------------------------------------------------------------
\* simulation/engine.py: one villager's day as its fatigue, its health and
\* its social, purpose and rest needs see it: the decision (stage 3), a
\* recruitment into a work party (stage 4), _execute_schedule (stage 5),
\* the evening's interactions (stage 7) and the night (stage 9).
\* ---------------------------------------------------------------------

FATIGUE_PER_TRAVEL_HOUR == R(1, 20)

\* The health lost to an injury, rng.uniform(5, 20) at its upper end.
InjuryDamage == R(20, 1)

\* An ActivityPlan as _execute_schedule meets it: the hours of travel to
\* target_position (0 when the villager is there), whether a required tool
\* is found in the inventories, and whether the danger check hits.
ToilPlan(activity_name, planned_hours, travel_hours, tool_found, injured) ==
    [activity_name |-> activity_name, planned_hours |-> planned_hours, travel_hours |-> travel_hours,
     tool_found |-> tool_found, injured |-> injured]

\* The travel to the resource node.
Travelled(v, plan) == [v EXCEPT !.fatigue = RAdd(@, RMul(plan.travel_hours, FATIGUE_PER_TRAVEL_HOUR))]

\* The travel, with the clamp of the activity's fatigue applied to it too.
Travelled_Clamped(v, plan) == [v EXCEPT !.fatigue = RMin(One, RAdd(@, RMul(plan.travel_hours, FATIGUE_PER_TRAVEL_HOUR)))]

\* The end of an executed activity: fatigue, the danger check, purpose.
Worked(v, act, plan) ==
    [v EXCEPT !.fatigue = RMin(One, RAdd(@, RMul(act.fatigue_cost, plan.planned_hours))),
              !.health = IF RLt(Zero, act.danger_level) /\ plan.injured THEN RMax(Zero, RSub(@, InjuryDamage)) ELSE @,
              !.needs["purpose"] = Need_satisfy(@, R(1, 10))]

\* Whether the plan is carried out past the tool lookup.
Carried(plan) ==
    /\ plan.activity_name \notin {"rest", "socialize"}
    /\ ACTIVITIES(plan.activity_name).required_tools # <<>> => plan.tool_found

\* _execute_schedule, the body of the loop for one plan.
ExecuteActivity(v, plan) ==
    IF plan.activity_name \in {"rest", "socialize"} THEN ExecutePlan(v, ACTIVITIES(plan.activity_name))
    ELSE IF ~Carried(plan) THEN Travelled(v, plan)
    ELSE Worked(Travelled(v, plan), ACTIVITIES(plan.activity_name), plan)

\* _execute_schedule: the villager after each plan of the sched.
RECURSIVE ScheduleTrace(_, _, _)
ScheduleTrace(v, sched, i) ==
    IF i > Len(sched) THEN <<>>
    ELSE <<ExecuteActivity(v, sched[i])>> \o ScheduleTrace(ExecuteActivity(v, sched[i]), sched, i + 1)

_execute_schedule(v, sched) == IF sched = <<>> THEN v ELSE ScheduleTrace(v, sched, 1)[Len(sched)]

\* Stage 3 and stage 4: current_activity is the first activity planned,
\* unless a leader recruits the villager into its own.
Morning(v, sched, recruited_for) ==
    [v EXCEPT !.current_activity = IF recruited_for # "" THEN recruited_for
                                   ELSE IF sched # <<>> THEN sched[1].activity_name ELSE "rest"]

\* Stage 7: the villager starts `started` interactions and is the target
\* of `received`.
RECURSIVE Evening(_, _, _)
Evening(v, started, received) ==
    IF started > 0 THEN Evening([v EXCEPT !.needs["social"] = Need_satisfy(@, R(1, 10))], started - 1, received)
    ELSE IF received > 0 THEN Evening([v EXCEPT !.needs["social"] = Need_satisfy(@, R(1, 20))], started, received - 1)
    ELSE v

\* ---------------------------------------------------------------------
\* SpecToil: the days of one man of forty
\* ---------------------------------------------------------------------

MaxToilTicks == 2

ToilSchedules ==
    { <<ToilPlan("rest", R(12, 1), Zero, FALSE, FALSE)>>,
      <<ToilPlan("socialize", R(2, 1), Zero, FALSE, FALSE)>>,
      <<ToilPlan("gather_berries", R(3, 1), One, FALSE, FALSE)>>,
      <<ToilPlan("rest", R(12, 1), Zero, FALSE, FALSE), ToilPlan("gather_berries", R(3, 1), Zero, FALSE, TRUE)>>,
      <<ToilPlan("hunt_large_game", R(8, 1), Zero, TRUE, FALSE)>>,
      <<ToilPlan("hunt_small_game", R(4, 1), R(4, 1), FALSE, FALSE)>>,
      <<ToilPlan("hunt_small_game", R(4, 1), One, TRUE, TRUE), ToilPlan("hunt_small_game", R(4, 1), One, FALSE, FALSE)>> }

\* The activity of a leader that recruits the villager, "" for none.
Recruitments == {"", "hunt_large_game"}

\* The social need a villager wakes up with.
SocialLevels == {One, R(3, 5)}

ToilHealths == {R(100, 1), R(20, 1)}

InitToil ==
    /\ \E social \in SocialLevels, health \in ToilHealths :
          toil_villager = [DayVillager("male", 40 * DAYS_PER_YEAR, R(30, 1)) EXCEPT
                              !.id = 1, !.needs["social"].satisfaction = social, !.health = health]
    /\ toilLog = <<>>

\* The day of the tick as the log keeps it.
ToilDay(sched, recruited_for, started, received, morning) ==
    [schedule |-> sched, recruited_for |-> recruited_for, started |-> started, received |-> received,
     morning |-> morning, trace |-> ScheduleTrace(morning, sched, 1),
     evening |-> Evening(_execute_schedule(morning, sched), started, received),
     night |-> NightOf(Evening(_execute_schedule(morning, sched), started, received), Zero)]

ToilTick ==
    /\ Len(toilLog) < MaxToilTicks
    /\ toil_villager.is_alive
    /\ \E sched \in ToilSchedules, recruited_for \in Recruitments, started \in 0..2, received \in 0..1 :
         \E d \in {ToilDay(sched, recruited_for, started, received, Morning(toil_villager, sched, recruited_for))} :
            /\ toil_villager' = d.night
            /\ toilLog' = Append(toilLog, d)
    /\ UNCHANGED nonToilVars

NextToil == ToilTick

\* ---------------------------------------------------------------------
\* SpecPick: _pick_next_activity from the scored candidates on, for scores
\* on both sides of the satisficing threshold and of the adjusted one
\* ---------------------------------------------------------------------

MaxPickCalls == 2

\* Scores in thousandths, and the ambition of the villager.
PickScores == {400, 450, 550, 600, 700}

PickAmbitions == {1, 50, 99}

\* The candidate the k-th evaluation appended.
PickCandidate(k, score) == [score |-> score, plan |-> ActivityPlan(<<"gather_berries", "fishing", "rest">>[k], "None", One)]

PickCandidates ==
    {<<PickCandidate(1, a)>> : a \in PickScores}
    \cup {<<PickCandidate(1, a), PickCandidate(2, b)>> : a \in PickScores, b \in PickScores}
    \cup {<<PickCandidate(1, a), PickCandidate(2, b), PickCandidate(3, c)>> : a \in PickScores, b \in PickScores, c \in PickScores}

InitPick ==
    /\ pick_scored = <<>>
    /\ pick_ambition = 50
    /\ pick_plan = ActivityPlan("None", "None", Zero)
    /\ pickCalls = 0

\* _pick_next_activity with a slot that has candidates: the sort and the
\* satisficing loop.
PickNextActivity ==
    /\ pickCalls < MaxPickCalls
    /\ \E candidates \in PickCandidates, ambition \in PickAmbitions :
          /\ pick_scored' = candidates
          /\ pick_ambition' = ambition
          /\ pick_plan' = Satisfice(SortByScore(candidates, 1, <<>>), 1, ambition)
    /\ pickCalls' = pickCalls + 1
    /\ UNCHANGED nonPickVars

NextPick == PickNextActivity

-----------------------------------------------------------------------------
(* simulation/engine.py _process_lifecycle and simulation/metrics.py: the  *)
(* dead collection and the daily counters of births and deaths, over the   *)
(* ticks of the three founders.                                            *)

\* MetricsCollector(): no snapshot, the daily counters at 0.
MetricsCollector ==
    [snapshots |-> <<>>, daily_births |-> 0, daily_deaths |-> 0]

\* The deaths loop of _process_lifecycle that appends every dead villager
\* of the registry, whether listed already or not.
RECURSIVE DeathsFrom_Relisted(_, _, _, _)
DeathsFrom_Relisted(ids, living, acc, id) ==
    IF id > Len(ids) THEN acc
    ELSE IF ids[id] \in living
    THEN DeathsFrom_Relisted(ids, living, acc, id + 1)
    ELSE DeathsFrom_Relisted(ids, living,
            [dead |-> Append(acc.dead, ids[id]),
             metrics |-> [acc.metrics EXCEPT !.daily_deaths = @ + 1]],
            id + 1)

\* The deaths loop of _process_lifecycle over list(self.villagers): a
\* villager who is not alive and not in dead_villagers is appended to it
\* and metrics.record_death() is called.
RECURSIVE DeathsFrom(_, _, _, _)
DeathsFrom(ids, living, acc, id) ==
    IF id > Len(ids) THEN acc
    ELSE IF ids[id] \in living \/ \E k \in 1..Len(acc.dead) : acc.dead[k] = ids[id]
    THEN DeathsFrom(ids, living, acc, id + 1)
    ELSE DeathsFrom(ids, living,
            [dead |-> Append(acc.dead, ids[id]),
             metrics |-> [acc.metrics EXCEPT !.daily_deaths = @ + 1]],
            id + 1)

\* The births loop of _process_lifecycle on the collector: record_birth()
\* once per child.
BirthsRecorded(acc, mothers) ==
    [acc EXCEPT !.metrics.daily_births = @ + Cardinality(mothers)]

\* MetricsCollector.collect_daily, the population part: the snapshot holds
\* the number of the living and the two counters, which are then reset.
collect_daily(mc, vs) ==
    [snapshots |-> Append(mc.snapshots,
                          [population |-> Cardinality(AliveIn(vs)),
                           births |-> mc.daily_births,
                           deaths |-> mc.daily_deaths]),
     daily_births |-> 0, daily_deaths |-> 0]

\* The registry as stage 11 found it: the children of the day, who come
\* last, are not in it yet.
RegistryAtLifecycle(w) ==
    [id \in 1..(Len(w.vs) - Cardinality(w.log.mothers)) |-> id]

\* Stages 11 and 14 on the dead collection and the collector, for a tick
\* that ended in w: the deaths loop sees the living that stage 11 found on
\* entry, the births loop the mothers of the day, collect_daily the
\* registry at the end of the tick.
Accounted(dead, mc, w) ==
    CHOOSE r \in
      { [dead |-> acc.dead, metrics |-> collect_daily(acc.metrics, w.vs)] :
        acc \in { BirthsRecorded(
                    DeathsFrom(RegistryAtLifecycle(w), w.log.entry[11],
                               [dead |-> dead, metrics |-> mc], 1),
                    w.log.mothers) } } : TRUE

\* What a tick of the census leaves alone.
censusFrame == <<needVars, invVars, tradeVars, engineVars, famVars, planVars, giniVars, memVars, valueVars, execVars, eatVars, kinVars, relVars, offerVars, cropVars, toilVars, pickVars, partyVars>>

\* The number of living villagers the village was founded with.
FoundersLiving == Cardinality(AliveIn(FoundersAt(FALSE, FALSE)))

InitCensus ==
    /\ InitDay
    /\ dead_villagers = <<>>
    /\ metrics = MetricsCollector
    /\ censusPre = [living |-> FoundersLiving, ran |-> FALSE]

\* SimulationEngine.tick with its bookkeeping of births and deaths: the
\* tick returns at once when nobody is alive.
CensusTick ==
    /\ dayTicks < MaxDayTicks
    /\ \E plans \in DayPlans, roll \in DayRolls, pick \in DayPicks :
          IF AliveIn(day_villagers) = {}
          THEN /\ UNCHANGED <<day_villagers, day_family_inv, day_registry,
                              dead_villagers, metrics>>
               /\ stage_log' = StartOfTick(day_villagers, day_family_inv,
                                           day_registry).log
          ELSE \E w \in { TickStages(StartOfTick(day_villagers, day_family_inv,
                                                 day_registry),
                                     plans, roll, pick) } :
                 /\ day_villagers' = w.vs
                 /\ day_family_inv' = w.inv
                 /\ day_registry' = w.reg
                 /\ stage_log' = w.log
                 /\ \E a \in {Accounted(dead_villagers, metrics, w)} :
                       /\ dead_villagers' = a.dead
                       /\ metrics' = a.metrics
    /\ censusPre' = [living |-> Cardinality(AliveIn(day_villagers)),
                     ran |-> AliveIn(day_villagers) # {}]
    /\ dayPre' = day_villagers
    /\ dayTicks' = dayTicks + 1
    /\ UNCHANGED censusFrame

NextCensus == CensusTick

-----------------------------------------------------------------------------
(* social/groups.py: resolve_work_parties and form_work_party, on a        *)
(* village of seven with its friendships, the activities of the morning    *)
(* and the answers to the requests to join.                                *)

\* The cap on the size of a party: "if len(recruited) >= 5".
PartyCap == 5

PartyIds == 1..7

\* form_work_party: the leader first, then the members other than the
\* leader; the party is appended to work_parties.
form_work_party(leader_id, activity, recruited_ids) ==
    [leader_id |-> leader_id,
     member_ids |-> <<leader_id>> \o SelectSeq(recruited_ids, LAMBDA c : c # leader_id),
     activity |-> activity]

\* candidates: the friends who are in villager_map, not assigned and alive.
PartyCandidates(vs, friend_ids, living, taken) ==
    SelectSeq(friend_ids,
              LAMBDA vid : vid \in living /\ vid \notin taken /\ vs[vid].is_alive)

\* One more recruit: recruited.append, assigned.add and the recruit's
\* current_activity set to the leader's.
Joined(acc, cand_id, activity) ==
    [recruited |-> Append(acc.recruited, cand_id),
     taken |-> acc.taken \cup {cand_id},
     vs |-> [acc.vs EXCEPT ![cand_id].current_activity = activity]]

\* The loop over the candidates without the cap on the size of the group.
RECURSIVE RecruitLoop_Uncapped(_, _, _, _, _)
RecruitLoop_Uncapped(cands, i, acc, activity, willing) ==
    IF i > Len(cands) THEN acc
    ELSE IF cands[i] \notin willing
    THEN RecruitLoop_Uncapped(cands, i + 1, acc, activity, willing)
    ELSE RecruitLoop_Uncapped(cands, i + 1, Joined(acc, cands[i], activity),
                              activity, willing)

\* The loop over the candidates: whoever evaluate_cooperation_request
\* answers True for joins, and the loop breaks at five recruited.
RECURSIVE RecruitLoop(_, _, _, _, _)
RecruitLoop(cands, i, acc, activity, willing) ==
    IF i > Len(cands) THEN acc
    ELSE IF cands[i] \notin willing
    THEN RecruitLoop(cands, i + 1, acc, activity, willing)
    ELSE IF Len(acc.recruited) + 1 >= PartyCap
    THEN Joined(acc, cands[i], activity)
    ELSE RecruitLoop(cands, i + 1, Joined(acc, cands[i], activity),
                     activity, willing)

\* The end of the loop body: the party is formed if the recruited are
\* enough for the activity.  formed lists what form_work_party returned
\* during the call.
Formed(st, leader_id, activity, acc) ==
    [vs |-> acc.vs, taken |-> acc.taken,
     work_parties |->
        IF Len(acc.recruited) >= ACTIVITIES(activity).min_group_size
        THEN Append(st.work_parties, form_work_party(leader_id, activity, acc.recruited))
        ELSE st.work_parties,
     formed |->
        IF Len(acc.recruited) >= ACTIVITIES(activity).min_group_size
        THEN Append(st.formed, form_work_party(leader_id, activity, acc.recruited))
        ELSE st.formed]

\* The body of the loop over the villagers for a leader: the recruiting
\* among the candidates, then the party.
Led(st, leader_id, friend_lists, living, willing) ==
    CHOOSE r \in
      { Formed(st, leader_id, st.vs[leader_id].current_activity, acc) :
        acc \in { RecruitLoop(PartyCandidates(st.vs, friend_lists[leader_id],
                                              living, st.taken),
                              1,
                              [recruited |-> <<leader_id>>,
                               taken |-> st.taken \cup {leader_id},
                               vs |-> st.vs],
                              st.vs[leader_id].current_activity, willing) } } : TRUE

\* ACTIVITIES.get(name) is not None and the activity needs a group.
NeedsGroup(activity_name) ==
    /\ \E k \in 1..Len(ActivityOrder) : ActivityOrder[k] = activity_name
    /\ ACTIVITIES(activity_name).min_group_size > 1

\* The loop of resolve_work_parties over the villagers it is handed.
RECURSIVE LeadersFrom(_, _, _, _, _, _)
LeadersFrom(st, roll_call, i, friend_lists, living, willing) ==
    IF i > Len(roll_call) THEN st
    ELSE IF \/ ~st.vs[roll_call[i]].is_alive
            \/ roll_call[i] \in st.taken
            \/ ~NeedsGroup(st.vs[roll_call[i]].current_activity)
    THEN LeadersFrom(st, roll_call, i + 1, friend_lists, living, willing)
    ELSE LeadersFrom(Led(st, roll_call[i], friend_lists, living, willing),
                     roll_call, i + 1, friend_lists, living, willing)

\* resolve_work_parties that keeps yesterday's parties.
resolve_work_parties_Kept(vs, parties, roll_call, friend_lists, willing) ==
    LeadersFrom([vs |-> vs, taken |-> {}, work_parties |-> parties, formed |-> <<>>],
                roll_call, 1, friend_lists,
                {roll_call[k] : k \in {j \in 1..Len(roll_call) : vs[roll_call[j]].is_alive}},
                willing)

\* GroupManager.resolve_work_parties(villagers, ...): work_parties.clear(),
\* villager_map of the living among the villagers handed over, then the
\* loop.
resolve_work_parties(vs, parties, roll_call, friend_lists, willing) ==
    LeadersFrom([vs |-> vs, taken |-> {}, work_parties |-> <<>>, formed |-> <<>>],
                roll_call, 1, friend_lists,
                {roll_call[k] : k \in {j \in 1..Len(roll_call) : vs[roll_call[j]].is_alive}},
                willing)

\* ---------------------------------------------------------------------
\* SpecParty: the mornings of a village of seven
\* ---------------------------------------------------------------------

MaxPartyCalls == 2
MaxPartyDeaths == 1

\* get_friends(id) for each villager, in the order of the relationship
\* store: everybody with everybody, a chain of neighbours, and a village
\* around villager 1 with villagers 6 and 7 apart.
FriendGraphs ==
    { [id \in PartyIds |-> SelectSeq(<<1, 2, 3, 4, 5, 6, 7>>, LAMBDA c : c # id)],
      [id \in PartyIds |-> SelectSeq(<<7, 6, 5, 4, 3, 2, 1>>,
                                     LAMBDA c : c = id + 1 \/ c = id - 1)],
      [id \in PartyIds |->
         IF id = 1 THEN <<2, 3, 4, 5>>
         ELSE IF id \in 2..5 THEN <<1>>
         ELSE IF id = 6 THEN <<7>> ELSE <<6>>] }

\* The first activity of each villager's schedule, as stage 3 sets it.
PartyMornings ==
    { <<"build_road", "rest", "rest", "rest", "rest", "rest", "socialize">>,
      <<"rest", "socialize", "rest", "build_road", "rest", "socialize", "rest">>,
      <<"socialize", "socialize", "build_road", "rest", "gather_berries", "rest", "build_road">>,
      <<"rest", "rest", "rest", "rest", "rest", "rest", "rest">> }

\* Those evaluate_cooperation_request answers True for when asked.
WillingSets == {PartyIds, {}, {2, 4, 6}, {1, 3, 5, 7}}

\* Those who may die overnight.
Mortals == {1, 3}

InitParty ==
    /\ party_villagers = [id \in PartyIds |-> [is_alive |-> TRUE, current_activity |-> ""]]
    /\ \E g \in FriendGraphs : party_friends = g
    /\ work_parties = <<>>
    /\ partyPre = [op |-> "new"]
    /\ partyCalls = 0

\* Stage 3 sets the current activities of the living; then stage 4,
\* group_manager.resolve_work_parties(alive, ...).
ResolveWorkParties ==
    /\ partyCalls < MaxPartyCalls
    /\ \E morning \in PartyMornings, willing \in WillingSets :
         \E r \in { resolve_work_parties(vs, work_parties,
                        SelectSeq(<<1, 2, 3, 4, 5, 6, 7>>, LAMBDA c : vs[c].is_alive),
                        party_friends, willing) :
                    vs \in { [id \in PartyIds |->
                                IF party_villagers[id].is_alive
                                THEN [party_villagers[id] EXCEPT
                                        !.current_activity = morning[id]]
                                ELSE party_villagers[id]] } } :
            /\ party_villagers' = r.vs
            /\ work_parties' = r.work_parties
            /\ partyPre' = [op |-> "resolve_work_parties", morning |-> morning,
                            willing |-> willing, work_parties |-> work_parties,
                            formed |-> r.formed]
    /\ partyCalls' = partyCalls + 1
    /\ UNCHANGED party_friends
    /\ UNCHANGED nonPartyVars

\* Villager.die in the night's daily_update.
PartyDeath ==
    /\ partyCalls > 0
    /\ Cardinality({id \in PartyIds : ~party_villagers[id].is_alive}) < MaxPartyDeaths
    /\ \E id \in Mortals :
          /\ party_villagers[id].is_alive
          /\ party_villagers' = [party_villagers EXCEPT ![id].is_alive = FALSE]
    /\ partyPre' = [op |-> "die"]
    /\ UNCHANGED <<party_friends, work_parties, partyCalls>>
    /\ UNCHANGED nonPartyVars

NextParty == ResolveWorkParties \/ PartyDeath

\*SECTION-DECISION
\*SECTION-SPECS
InitNeedSpec == InitNeed /\ PlanIdle /\ InvIdle /\ TradeIdle /\ EngineIdle /\ FamIdle /\ GiniIdle /\ MemIdle /\ ValueIdle /\ DayIdle /\ ExecIdle /\ EatIdle /\ KinIdle /\ RelIdle /\ OfferIdle /\ CropIdle /\ ToilIdle /\ PickIdle /\ CensusIdle /\ PartyIdle

SpecNeed == InitNeedSpec /\ [][NextNeed]_vars

InitInvSpec == InitInv /\ PlanIdle /\ NeedIdle /\ TradeIdle /\ EngineIdle /\ FamIdle /\ GiniIdle /\ MemIdle /\ ValueIdle /\ DayIdle /\ ExecIdle /\ EatIdle /\ KinIdle /\ RelIdle /\ OfferIdle /\ CropIdle /\ ToilIdle /\ PickIdle /\ CensusIdle /\ PartyIdle

InitTradeSpec == InitTrade /\ PlanIdle /\ NeedIdle /\ InvIdle /\ EngineIdle /\ FamIdle /\ GiniIdle /\ MemIdle /\ ValueIdle /\ DayIdle /\ ExecIdle /\ EatIdle /\ KinIdle /\ RelIdle /\ OfferIdle /\ CropIdle /\ ToilIdle /\ PickIdle /\ CensusIdle /\ PartyIdle

InitEngineSpec == InitEngine /\ PlanIdle /\ NeedIdle /\ InvIdle /\ TradeIdle /\ FamIdle /\ GiniIdle /\ MemIdle /\ ValueIdle /\ DayIdle /\ ExecIdle /\ EatIdle /\ KinIdle /\ RelIdle /\ OfferIdle /\ CropIdle /\ ToilIdle /\ PickIdle /\ CensusIdle /\ PartyIdle

InitFamSpec == InitFam /\ PlanIdle /\ NeedIdle /\ InvIdle /\ TradeIdle /\ EngineIdle /\ GiniIdle /\ MemIdle /\ ValueIdle /\ DayIdle /\ ExecIdle /\ EatIdle /\ KinIdle /\ RelIdle /\ OfferIdle /\ CropIdle /\ ToilIdle /\ PickIdle /\ CensusIdle /\ PartyIdle

SpecFamily == InitFamSpec /\ [][NextFam]_vars

InitPlanSpec ==
    InitPlan /\ NeedIdle /\ InvIdle /\ TradeIdle /\ EngineIdle /\ FamIdle /\ GiniIdle /\ MemIdle /\ ValueIdle /\ DayIdle /\ ExecIdle /\ EatIdle /\ KinIdle /\ RelIdle /\ OfferIdle /\ CropIdle /\ ToilIdle /\ PickIdle /\ CensusIdle /\ PartyIdle

SpecPlan == InitPlanSpec /\ [][NextPlan]_vars

SpecEngine == InitEngineSpec /\ [][NextEngine]_vars

SpecTrade == InitTradeSpec /\ [][NextTrade]_vars

SpecInv == InitInvSpec /\ [][NextInv]_vars

InitGiniSpec ==
    InitGini /\ NeedIdle /\ InvIdle /\ TradeIdle /\ EngineIdle /\ FamIdle /\ PlanIdle /\ MemIdle /\ ValueIdle /\ DayIdle /\ ExecIdle /\ EatIdle /\ KinIdle /\ RelIdle /\ OfferIdle /\ CropIdle /\ ToilIdle /\ PickIdle /\ CensusIdle /\ PartyIdle

SpecGini == InitGiniSpec /\ [][NextGini]_vars

InitMemSpec ==
    InitMem /\ NeedIdle /\ InvIdle /\ TradeIdle /\ EngineIdle /\ FamIdle /\ PlanIdle /\ GiniIdle /\ ValueIdle /\ DayIdle /\ ExecIdle /\ EatIdle /\ KinIdle /\ RelIdle /\ OfferIdle /\ CropIdle /\ ToilIdle /\ PickIdle /\ CensusIdle /\ PartyIdle

SpecMemory == InitMemSpec /\ [][NextMem]_vars

InitValueSpec ==
    InitValue /\ NeedIdle /\ InvIdle /\ TradeIdle /\ EngineIdle /\ FamIdle /\ PlanIdle /\ GiniIdle /\ MemIdle /\ DayIdle /\ ExecIdle /\ EatIdle /\ KinIdle /\ RelIdle /\ OfferIdle /\ CropIdle /\ ToilIdle /\ PickIdle /\ CensusIdle /\ PartyIdle

SpecValue == InitValueSpec /\ [][NextValue]_vars

InitDaySpec ==
    InitDay /\ NeedIdle /\ InvIdle /\ TradeIdle /\ EngineIdle /\ FamIdle /\ PlanIdle /\ GiniIdle /\ MemIdle /\ ValueIdle /\ ExecIdle /\ EatIdle /\ KinIdle /\ RelIdle /\ OfferIdle /\ CropIdle /\ ToilIdle /\ PickIdle /\ CensusIdle /\ PartyIdle

SpecDay == InitDaySpec /\ [][NextDay]_vars

InitExecSpec ==
    InitExec /\ NeedIdle /\ InvIdle /\ TradeIdle /\ EngineIdle /\ FamIdle /\ PlanIdle /\ GiniIdle /\ MemIdle /\ ValueIdle /\ DayIdle /\ EatIdle /\ KinIdle /\ RelIdle /\ OfferIdle /\ CropIdle /\ ToilIdle /\ PickIdle /\ CensusIdle /\ PartyIdle

SpecExec == InitExecSpec /\ [][NextExec]_vars

InitEatSpec ==
    InitEat /\ NeedIdle /\ InvIdle /\ TradeIdle /\ EngineIdle /\ FamIdle /\ PlanIdle /\ GiniIdle /\ MemIdle /\ ValueIdle /\ DayIdle /\ ExecIdle /\ KinIdle /\ RelIdle /\ OfferIdle /\ CropIdle /\ ToilIdle /\ PickIdle /\ CensusIdle /\ PartyIdle

SpecEat == InitEatSpec /\ [][NextEat]_vars

InitKinSpec ==
    InitKin /\ NeedIdle /\ InvIdle /\ TradeIdle /\ EngineIdle /\ FamIdle /\ PlanIdle /\ GiniIdle /\ MemIdle /\ ValueIdle /\ DayIdle /\ ExecIdle /\ EatIdle /\ RelIdle /\ OfferIdle /\ CropIdle /\ ToilIdle /\ PickIdle /\ CensusIdle /\ PartyIdle

SpecKin == InitKinSpec /\ [][NextKin]_vars

InitRelSpec ==
    InitRel /\ NeedIdle /\ InvIdle /\ TradeIdle /\ EngineIdle /\ FamIdle /\ PlanIdle /\ GiniIdle /\ MemIdle /\ ValueIdle /\ DayIdle /\ ExecIdle /\ EatIdle /\ KinIdle /\ OfferIdle /\ CropIdle /\ ToilIdle /\ PickIdle /\ CensusIdle /\ PartyIdle

SpecRel == InitRelSpec /\ [][NextRel]_vars

InitOfferSpec ==
    InitOffer /\ NeedIdle /\ InvIdle /\ TradeIdle /\ EngineIdle /\ FamIdle /\ PlanIdle /\ GiniIdle /\ MemIdle /\ ValueIdle /\ DayIdle /\ ExecIdle /\ EatIdle /\ KinIdle /\ RelIdle /\ CropIdle /\ ToilIdle /\ PickIdle /\ CensusIdle /\ PartyIdle

SpecOffer == InitOfferSpec /\ [][NextOffer]_vars

InitCropSpec ==
    InitCrop /\ NeedIdle /\ InvIdle /\ TradeIdle /\ EngineIdle /\ FamIdle /\ PlanIdle /\ GiniIdle /\ MemIdle /\ ValueIdle /\ DayIdle /\ ExecIdle /\ EatIdle /\ KinIdle /\ RelIdle /\ OfferIdle /\ ToilIdle /\ PickIdle /\ CensusIdle /\ PartyIdle

SpecCrop == InitCropSpec /\ [][NextCrop]_vars

InitToilSpec ==
    InitToil /\ NeedIdle /\ InvIdle /\ TradeIdle /\ EngineIdle /\ FamIdle /\ PlanIdle /\ GiniIdle /\ MemIdle /\ ValueIdle /\ DayIdle /\ ExecIdle /\ EatIdle /\ KinIdle /\ RelIdle /\ OfferIdle /\ CropIdle /\ PickIdle /\ CensusIdle /\ PartyIdle

SpecToil == InitToilSpec /\ [][NextToil]_vars

InitPickSpec ==
    InitPick /\ NeedIdle /\ InvIdle /\ TradeIdle /\ EngineIdle /\ FamIdle /\ PlanIdle /\ GiniIdle /\ MemIdle /\ ValueIdle /\ DayIdle /\ ExecIdle /\ EatIdle /\ KinIdle /\ RelIdle /\ OfferIdle /\ CropIdle /\ ToilIdle /\ CensusIdle /\ PartyIdle

SpecPick == InitPickSpec /\ [][NextPick]_vars

InitCensusSpec ==
    InitCensus /\ NeedIdle /\ InvIdle /\ TradeIdle /\ EngineIdle /\ FamIdle /\ PlanIdle /\ GiniIdle /\ MemIdle /\ ValueIdle /\ ExecIdle /\ EatIdle /\ KinIdle /\ RelIdle /\ OfferIdle /\ CropIdle /\ ToilIdle /\ PickIdle /\ PartyIdle

SpecCensus == InitCensusSpec /\ [][NextCensus]_vars

InitPartySpec ==
    InitParty /\ NeedIdle /\ InvIdle /\ TradeIdle /\ EngineIdle /\ FamIdle /\ PlanIdle /\ GiniIdle /\ MemIdle /\ ValueIdle /\ DayIdle /\ ExecIdle /\ EatIdle /\ KinIdle /\ RelIdle /\ OfferIdle /\ CropIdle /\ ToilIdle /\ PickIdle /\ CensusIdle

SpecParty == InitPartySpec /\ [][NextParty]_vars

\*SECTION-CLAIMS
\* C1: a Need's satisfaction stays within [0,1] after any sequence of
\* decay and satisfy calls, whatever the sign of the modifier or amount.
C1_SatisfactionInRange ==
    /\ RLe(Zero, need.satisfaction)
    /\ RLe(need.satisfaction, One)

\* Every stack of an inventory has a quantity >= 0.
NoNegativeStack(iv) ==
    \A k \in 1..Len(iv.items) : \A i \in 1..Len(iv.items[k].stacks) :
        RLe(Zero, iv.items[k].stacks[i].quantity)

\* The last call was an add whose item did not fit the remaining capacity.
AddOverflowed ==
    /\ invCall.op = "add"
    /\ RLt(invPre.capacity,
           RAdd(total_weight(invPre), Item_total_weight(invCall.item)))

\* What the remaining capacity admits of the item of the last add, in units.
AddableBefore ==
    RDiv(RSub(invPre.capacity, total_weight(invPre)), weight_per_unit(invCall.item))

C2_RejectReached ==
    /\ AddOverflowed
    /\ invCall.ret = FALSE
    /\ RLt(total_weight(invPre), invPre.capacity)

QtyIn(entries, t) ==
    IF \E i \in 1..Len(entries) : entries[i][1] = t
    THEN entries[CHOOSE i \in 1..Len(entries) : entries[i][1] = t][2]
    ELSE Zero

\* The last call was execute_trade and one party held less than the
\* fraction f of a quantity of the offer.
HeldLessThan(f) ==
    /\ tradeCall.op = "execute_trade"
    /\ \/ \E t \in ItemTypes :
            RLt(total_of(tradePre.offerer_inv, t),
                RMul(QtyIn(tradeCall.offer.offering, t), f))
       \/ \E t \in ItemTypes :
            RLt(total_of(tradePre.target_inv, t),
                RMul(QtyIn(tradeCall.offer.requesting, t), f))

\* The last call returned False and changed nothing.
TradeRefused ==
    /\ tradeCall.ret = FALSE
    /\ CurrentTradeState = tradePre

\* C4 as stated: if the offerer holds less than an offered quantity or the
\* target less than a requested quantity, execute_trade returns False and
\* leaves both inventories, the counters and daily_trades as they were.
C4_ShortfallRefused == HeldLessThan(One) => TradeRefused

\* C4 as amended: if the offerer holds less than 99% of an offered quantity
\* or the target less than 99% of a requested quantity, execute_trade
\* returns False and leaves both inventories, total_trades,
\* total_items_exchanged and daily_trades exactly as they were.
C4_VerifiedShortfallRefused == HeldLessThan(VerifyTolerance) => TradeRefused

\* After an earlier trade, a trade was refused because only the target
\* lacked a requested item.
C4_Witness ==
    /\ HeldLessThan(VerifyTolerance)
    /\ \A t \in ItemTypes :
         RLe(QtyIn(tradeCall.offer.offering, t), total_of(tradePre.offerer_inv, t))
    /\ Len(tradeCall.offer.offering) > 0
    /\ tradeCall.ret = FALSE
    /\ total_trades > 0

\* C5: when execute_trade returns True every offered quantity has moved
\* from the offerer to the target and every requested quantity from the
\* target to the offerer, the two inventories' joint holding of each item
\* type is unchanged, and the items-exchanged figure recorded equals the
\* quantities moved.
C5_TradeMovesFullQuantities ==
    (tradeCall.op = "execute_trade" /\ tradeCall.ret = TRUE) =>
       /\ \A t \in ItemTypes :
            /\ total_of(offerer_inv, t)
                 = RAdd(RSub(total_of(tradePre.offerer_inv, t),
                             QtyIn(tradeCall.offer.offering, t)),
                        QtyIn(tradeCall.offer.requesting, t))
            /\ total_of(target_inv, t)
                 = RSub(RAdd(total_of(tradePre.target_inv, t),
                             QtyIn(tradeCall.offer.offering, t)),
                        QtyIn(tradeCall.offer.requesting, t))
            /\ RAdd(total_of(offerer_inv, t), total_of(target_inv, t))
                 = RAdd(total_of(tradePre.offerer_inv, t),
                        total_of(tradePre.target_inv, t))
       /\ RSub(total_items_exchanged, tradePre.total_items_exchanged)
            = RAdd(SumValues(tradeCall.offer.offering),
                   SumValues(tradeCall.offer.requesting))

\* C7: a tick() made while at least one villager is alive runs to
\* completion without raising, advances the clock by exactly one day and
\* appends exactly one metrics snapshot carrying that day number.
C7_TickCompletes ==
    (tickOutcome # "none" /\ tickPre.alive # {}) =>
       /\ tickOutcome = "completed"
       /\ clock_day = tickPre.day + 1
       /\ snapshots = Append(tickPre.snapshots, clock_day)

\* An activity the static mapping assigns to hunger, thirst, rest, health
\* or warmth.
SurvivalActivity(activity_name) ==
    \E n \in {"hunger", "thirst", "rest", "health", "warmth"} :
       InSeq(n, ACTIVITY_NEED_MAPPING(activity_name))

\* The villager planned for had one of the five survival needs below 0.15.
SurvivalNeedCritical ==
    \E n \in {"hunger", "thirst", "rest", "health", "warmth"} :
       RLt(planPre.villager.needs[n].satisfaction, R(15, 100))

\* C8: when one of hunger, thirst, rest, health, warmth is below the
\* critical threshold, every slot plan_day fills holds an activity mapped
\* to one of those five needs; in particular the first plan of a villager
\* whose hunger satisfaction is 0.05.
C8_SurvivalModePlansSurvival ==
    planOp = "plan_day" =>
       /\ SurvivalNeedCritical =>
             \A i \in 1..Len(schedule) : SurvivalActivity(schedule[i].activity_name)
       /\ (planPre.villager.needs["hunger"].satisfaction = R(1, 20)
           /\ schedule # <<>>) => SurvivalActivity(schedule[1].activity_name)

\* A villager with hunger at 0.05 was planned a day of two slots or more
\* that starts with work.
C8_Witness ==
    /\ planOp = "plan_day"
    /\ planPre.villager.needs["hunger"].satisfaction = R(1, 20)
    /\ Len(schedule) >= 2
    /\ schedule[1].activity_name # "rest"

\* No stack of the inventory is a tool with durability left.
NoFunctionalTool(iv) ==
    \A i \in 1..Len(AllStacks(iv)) :
       \/ Catalog(AllStacks(iv)[i].item_type).tool_type = ""
       \/ ~RLt(Zero, AllStacks(iv)[i].current_durability)

RequiresTools(activity_name) == ACTIVITIES(activity_name).required_tools # <<>>

PlannedWithoutTools ==
    /\ planOp = "plan_day"
    /\ NoFunctionalTool(planPre.villager.personal_inventory)
    /\ NoFunctionalTool(planPre.family_inventory)

\* C9: for a villager with no functional tool in its personal or its
\* family inventory, no activity that requires tools is a candidate of
\* any slot, and none appears in the schedule plan_day returns.
C9_NoToolNoToolActivity ==
    PlannedWithoutTools =>
       /\ \A i \in 1..Len(slot_candidates) :
             \A j \in 1..Len(slot_candidates[i]) :
                ~RequiresTools(slot_candidates[i][j])
       /\ \A i \in 1..Len(schedule) : ~RequiresTools(schedule[i].activity_name)

\* A hungry villager whose family holds only a spear without durability
\* was planned a day in spring with game, fish and farmland at hand.
C9_Witness ==
    /\ PlannedWithoutTools
    /\ HasKey(planPre.family_inventory, "wooden_spear")
    /\ planPre.villager.needs["hunger"].satisfaction = R(1, 20)
    /\ planPre.day.season = "spring"
    /\ planPre.resources["game_small"].found
    /\ schedule # <<>>

\* The members distribute_food feeds: alive, hunger deficit above 0.05.
HungryMembers(members) ==
    {m \in 1..Len(members) :
       /\ members[m].is_alive
       /\ RLt(FeedThreshold, RSub(One, members[m].hunger.satisfaction))}

\* A member's need: hunger deficit times BASE_DAILY_FOOD_NEED.
MemberNeed(member) ==
    RMul(RSub(One, member.hunger.satisfaction), BaseDailyFoodNeed)

SummedNeed(members) ==
    SumSeq([m \in 1..Len(members) |->
              IF m \in HungryMembers(members) THEN MemberNeed(members[m])
              ELSE Zero])

\* The last call was distribute_food on an inventory holding food value
\* at least equal to the summed needs.
FedWithEnough ==
    /\ famOp = "distribute_food"
    /\ RLe(SummedNeed(famPre.members), total_food_value(famPre.inventory))

FoodValueRemoved ==
    RSub(total_food_value(famPre.inventory), total_food_value(fam_inventory))

AllHungryFed ==
    \A m \in HungryMembers(famPre.members) :
        fam_members[m].hunger.satisfaction = One

OthersUnchanged ==
    \A m \in (1..Len(fam_members)) \ HungryMembers(famPre.members) :
        fam_members[m] = famPre.members[m]

\* When the food value held equals one fed member's need, no food stack
\* of positive quantity remains.
ExactNeedLeavesNothing ==
    (\E m \in HungryMembers(famPre.members) :
        total_food_value(famPre.inventory) = MemberNeed(famPre.members[m]))
    => \A k \in 1..Len(food_items) :
         \A i \in 1..Len(StacksOf(fam_inventory, food_items[k])) :
            ~RLt(Zero, StacksOf(fam_inventory, food_items[k])[i].quantity)

\* The food value of 0.01 units of every food stack held before the call.
CrumbBound ==
    SumSeq([k \in 1..Len(food_items) |->
              SumSeq([i \in 1..Len(StacksOf(famPre.inventory, food_items[k])) |->
                        RMul(CleanupThreshold, Catalog(food_items[k]).food_value)])])

\* C10 as stated: with food value at least the summed needs of the living
\* members with hunger deficit above 0.05, distribute_food raises each
\* such member's hunger to 1.0 and removes exactly that much food value;
\* food value equal to one member's need leaves no positive stack; the
\* other members are unchanged.
C10_FeedsExactly ==
    FedWithEnough =>
       /\ AllHungryFed
       /\ FoodValueRemoved = SummedNeed(famPre.members)
       /\ ExactNeedLeavesNothing
       /\ OthersUnchanged

\* C10 as amended: the food value removed is the summed needs plus the
\* stacks the clean-up drops, at most 0.01 units of each food stack, and
\* no stack of quantity at most 0.01 is left behind; the rest as stated.
C10_FeedsUpToCrumbs ==
    FedWithEnough =>
       /\ AllHungryFed
       /\ RLe(SummedNeed(famPre.members), FoodValueRemoved)
       /\ RLe(RSub(FoodValueRemoved, SummedNeed(famPre.members)), CrumbBound)
       /\ total_food_value(famPre.inventory) # Zero =>
            \A k \in 1..Len(fam_inventory.items) :
               \A i \in 1..Len(fam_inventory.items[k].stacks) :
                  RLt(CleanupThreshold, fam_inventory.items[k].stacks[i].quantity)
       /\ ExactNeedLeavesNothing
       /\ OthersUnchanged

\* A hungry member was fed from enough food beside a dead member, and the
\* clean-up dropped a remainder.
C10_Witness ==
    /\ FedWithEnough
    /\ HungryMembers(famPre.members) # {}
    /\ \E m \in 1..Len(fam_members) : ~fam_members[m].is_alive
    /\ RLt(SummedNeed(famPre.members), FoodValueRemoved)

\* A member was fed from food value exactly equal to its need.
C10_ExactReached ==
    /\ FedWithEnough
    /\ \E m \in HungryMembers(famPre.members) :
         total_food_value(famPre.inventory) = MemberNeed(famPre.members[m])

\* The value of 2*sum(i*x_i)/(n*sum(x_i)) - (n+1)/n over the ascending
\* values, in exact arithmetic (undefined when the sum is 0).
RECURSIVE RankSum(_, _)
RankSum(xs, i) ==
    IF i > Len(xs) THEN Zero
    ELSE RAdd(RMul(R(i, 1), xs[i]), RankSum(xs, i + 1))

RECURSIVE PlainSum(_, _)
PlainSum(xs, i) ==
    IF i > Len(xs) THEN Zero ELSE RAdd(xs[i], PlainSum(xs, i + 1))

RankWeightedFormula(xs) ==
    RSub(RDiv(RMul(R(2, 1), RankSum(sorted(xs), 1)),
              RMul(R(Len(xs), 1), PlainSum(xs, 1))),
         R(Len(xs) + 1, Len(xs)))

GiniCalled == gini_result # "none"
AllZero(xs) == \A i \in 1..Len(xs) : xs[i] = Zero
AllEqual(xs) == \A i, j \in 1..Len(xs) : xs[i] = xs[j]

\* The rounding error the operations of gini_coefficient can add up to
\* on a list of n values: (4n + 8) units of 2^-FloatBits.
GiniTolerance(n) == R(4 * n + 8, Pow2(FloatBits))

\* Scaling rounds each value once more and compares two computed results.
ScalingTolerance(n) == R(8 * n + 20, Pow2(FloatBits))

Within(a, b, tol) == RLe(RAbs(RSub(a, b)), tol)

XpGrid == {Zero, R(1, 2), R(10, 1), R(45, 1), R(300, 1), R(2000, 1)}

SkillNow(c) == Memory_skill_level(skill_experience, c, mem_intelligence)
SkillBefore(c) == Memory_skill_level(memPre, c, mem_intelligence)
SkillAt(xp) == Memory_skill_level([a \in {"hunting"} |-> xp], "hunting", mem_intelligence)

\* C13: for fixed intelligence skill_level is non-decreasing in the
\* accumulated experience and never above 100; add_experience only adds
\* experience, so no skill level decreases over a sequence of activities.
C13_SkillNeverDecreases ==
    /\ \A c \in SkillCategories :
          /\ RLe(Get(memPre, c), Get(skill_experience, c))
          /\ RLe(SkillBefore(c), SkillNow(c))
          /\ RLe(Zero, SkillNow(c)) /\ RLe(SkillNow(c), R(100, 1))
          /\ \A g \in XpGrid :
                /\ RLe(g, Get(skill_experience, c)) => RLe(SkillAt(g), SkillNow(c))
                /\ RLe(Get(skill_experience, c), g) => RLe(SkillNow(c), SkillAt(g))
    /\ memOp.activity # "none" =>
          RLt(Get(memPre, memOp.activity), Get(skill_experience, memOp.activity))

\* A failed activity has raised a skill that was neither 0 nor 100.
C13_Witness ==
    /\ memOp.activity # "none"
    /\ ~memOp.success
    /\ RLt(Zero, SkillBefore(memOp.activity))
    /\ RLt(SkillBefore(memOp.activity), SkillNow(memOp.activity))
    /\ RLt(SkillNow(memOp.activity), R(100, 1))

\* A veteran's skill stands at 100 and stays there through an activity.
C13_SaturationReached ==
    /\ memOp.activity # "none"
    /\ memOp.activity = "hunting"
    /\ SkillBefore("hunting") = R(100, 1)
    /\ SkillNow("hunting") = R(100, 1)


ValueTaken == sv_value # <<>>
FoodValued == RLt(Zero, Catalog(sv_item_type).food_value)
ValueFloor == R(1, 100)

\* C12 as stated: for a food item the value at a lower hunger
\* satisfaction is strictly greater than at a higher one, anywhere
\* between 0.1 and 0.9.
C12_StrictlyIncreasing ==
    (ValueTaken /\ FoodValued) =>
       \A h1, h2 \in HungerLevels :
          RLt(h1, h2) => RLt(sv_value[h2], sv_value[h1])

\* C12, amended: the value at a lower hunger satisfaction is never less
\* than at a higher one, and it is strictly greater when the lower
\* satisfaction is below 0.5 and the value there is above the 0.01 floor;
\* from 0.5 upwards the value does not depend on hunger.
C12_IncreasingBelowHalf ==
    (ValueTaken /\ FoodValued) =>
       \A h1, h2 \in HungerLevels :
          RLt(h1, h2) =>
             /\ RLe(sv_value[h2], sv_value[h1])
             /\ (RLt(h1, R(1, 2)) /\ RLt(ValueFloor, sv_value[h1])) =>
                   RLt(sv_value[h2], sv_value[h1])
             /\ RLe(R(1, 2), h1) => sv_value[h2] = sv_value[h1]

\* Raw meat valued by a practised hunter whose family holds some: the
\* value rises strictly from 0.45 down to 0.1 and is level above 0.5.
C12_Witness ==
    /\ ValueTaken
    /\ sv_item_type = "raw_meat"
    /\ sv_quantity = One
    /\ sv_family_inv # None
    /\ RLt(sv_value[R(9, 20)], sv_value[R(3, 10)])
    /\ RLt(sv_value[R(3, 10)], sv_value[R(1, 10)])
    /\ sv_value[R(1, 2)] = sv_value[R(9, 10)]
    /\ RLt(sv_value[R(1, 2)], sv_value[R(9, 20)])

\* A value held at the floor at every hunger satisfaction.
C12_FloorReached ==
    /\ ValueTaken /\ FoodValued
    /\ \A h \in HungerLevels : sv_value[h] = ValueFloor


PlanDayReturned == planOp = "plan_day"

\* The planned hours of the plans from position i on.
RECURSIVE PlannedFrom(_, _)
PlannedFrom(sched, i) ==
    IF i > Len(sched) THEN Zero
    ELSE RAdd(sched[i].planned_hours, PlannedFrom(sched, i + 1))

\* The hours remaining when slot i was planned.
RemainingAt(i) ==
    RSub(planPre.day.daylight, PlannedFrom(SubSeq(schedule, 1, i - 1), 1))

\* C15: plan_day returns; with more than one hour available the schedule
\* is not empty; every slot holds one of the candidates weighed for it
\* or, when there was none, a rest plan of all the hours remaining; a
\* rest plan is the last plan; the planned hours add up to no more than
\* the hours available (and each plan takes an hour or more, which
\* bounds the number of slots).
C15_PlanDayFillsTheDay ==
    PlanDayReturned =>
       /\ RLt(One, planPre.day.daylight) => schedule # <<>>
       /\ Len(slot_candidates) = Len(schedule)
       /\ \A i \in 1..Len(schedule) :
             /\ slot_candidates[i] = <<>> =>
                   /\ schedule[i].activity_name = "rest"
                   /\ schedule[i].planned_hours = RemainingAt(i)
             /\ slot_candidates[i] # <<>> =>
                   InSeq(schedule[i].activity_name, slot_candidates[i])
             /\ schedule[i].activity_name = "rest" => i = Len(schedule)
             /\ RLe(One, schedule[i].planned_hours)
             /\ RLt(One, RemainingAt(i))
       /\ RLe(PlannedFrom(schedule, 1), planPre.day.daylight)

\* A day of three plans or more that ends with the rest plan of a slot
\* without candidates.
C15_Witness ==
    /\ PlanDayReturned
    /\ Len(schedule) >= 3
    /\ slot_candidates[Len(schedule)] = <<>>
    /\ schedule[Len(schedule)].activity_name = "rest"

\* The round trip to the plan's target resource, as _evaluate_activity
\* estimated it.
RoundTrip(plan) ==
    IF plan.target_resource_id = "None" THEN Zero
    ELSE RMul(planPre.resources[plan.target_resource_id].travel_hours, R(2, 1))

RECURSIVE HoursWithTravelFrom(_, _)
HoursWithTravelFrom(sched, i) ==
    IF i > Len(sched) THEN Zero
    ELSE RAdd(RAdd(sched[i].planned_hours, RoundTrip(sched[i])),
              HoursWithTravelFrom(sched, i + 1))

\* C18: the planned hours and the round trips of a schedule add up to
\* no more than the hours available.
C18_TravelFitsTheDay ==
    PlanDayReturned =>
       RLe(HoursWithTravelFrom(schedule, 1), planPre.day.daylight)


\* The villager planned for holds, in its personal or its family
\* inventory, a functional tool of every category the activity requires.
HoldsEveryRequiredTool(activity_name) ==
    \A k \in 1..Len(ACTIVITIES(activity_name).required_tools) :
       BestOfBoth(planPre.villager.personal_inventory, planPre.family_inventory,
                  ACTIVITIES(activity_name).required_tools[k]) # None

\* C17: an activity is a candidate of a slot, and is put on the schedule,
\* only if the villager's personal or family inventory holds a functional
\* tool of every one of the categories the activity requires.
C17_EveryRequiredTool ==
    PlanDayReturned =>
       /\ \A i \in 1..Len(slot_candidates) :
             \A j \in 1..Len(slot_candidates[i]) :
                HoldsEveryRequiredTool(slot_candidates[i][j])
       /\ \A i \in 1..Len(schedule) :
             HoldsEveryRequiredTool(schedule[i].activity_name)


DeadBefore ==
    IF dayTicks = 0 THEN {}
    ELSE {id \in 1..Len(dayPre) : ~dayPre[id].is_alive}

\* The villagers a stage of the last tick planned for, moved, fed, wed or
\* delivered.
TookPart ==
    stage_log.planned \cup stage_log.executed \cup stage_log.party
      \cup stage_log.social \cup stage_log.traded \cup stage_log.fed
      \cup stage_log.mothers \cup stage_log.married

\* C14: a villager that was dead when a tick began is still in the
\* registry and still dead after it, took part in no stage of it (not
\* planned for, no activity, no work party, no social interaction or trade
\* on either side, no food, no birth, no marriage), and has the needs, age,
\* health and sentiment it had before the tick.
C14_DeadStayDeadAndInert ==
    \A id \in DeadBefore :
       /\ id <= Len(day_villagers)
       /\ ~day_villagers[id].is_alive
       /\ id \notin TookPart
       /\ day_villagers[id].needs = dayPre[id].needs
       /\ day_villagers[id].age_days = dayPre[id].age_days
       /\ day_villagers[id].health = dayPre[id].health
       /\ day_villagers[id].current_sentiment = dayPre[id].current_sentiment

\* A tick that began with a dead villager among the living, in which the
\* living were planned for, met, traded and ate.
C14_Witness ==
    /\ DeadBefore # {}
    /\ stage_log.planned # {} /\ stage_log.executed # {}
    /\ stage_log.social # {} /\ stage_log.traded # {} /\ stage_log.fed # {}
    /\ \E id \in AliveIn(day_villagers) :
          /\ id <= Len(dayPre)
          /\ day_villagers[id].needs # dayPre[id].needs
          /\ day_villagers[id].current_sentiment # dayPre[id].current_sentiment

\* C19: the per-agent loop of every stage of a tick works on exactly the
\* villagers alive when the stage begins.
C19_LoopsOverTheLiving ==
    dayTicks > 0 =>
       \A s \in DOMAIN stage_log.loop : stage_log.loop[s] = stage_log.entry[s]


\* The last call was a gather_berries plan whose roll succeeded at a node
\* with nothing left.
GatheredAtDepleted ==
    /\ execCalls > 0
    /\ execPre.target # 0
    /\ RLt(execPre.roll, GatherSuccessChance)
    /\ RLe(execPre.nodes[execPre.target].current_abundance, Zero)

\* The node the harvest falls back on: the nearest stocked node of the
\* type, seen from the depleted node the villager stands at; 0 if none.
Alternative ==
    get_nearest_of_type(execPre.nodes, execPre.nodes[execPre.target].position, "wild_plants")

\* C16: when the node a plan names has no abundance left at execution, the
\* harvest comes from the nearest other stocked node of the type, or
\* nothing is deposited when there is none; no abundance turns negative
\* and the execution goes on without error.
C16_DepletedNodeFallsBack ==
    GatheredAtDepleted =>
       /\ execOutcome = "ok"
       /\ \A n \in ExecNodeIds : RLe(Zero, res_nodes[n].current_abundance)
       /\ IF Alternative = 0 THEN exec_inv = execPre.inv
          ELSE RLt(res_nodes[Alternative].current_abundance,
                   execPre.nodes[Alternative].current_abundance)


\* What the family's inventory holds of the things gather_berries yields.
Gathered(iv) == RAdd(total_of(iv, "berries"), total_of(iv, "plant_fiber"))

\* The last call harvested: a gather_berries plan whose roll succeeded at
\* a node with abundance left.
Harvested ==
    /\ execCalls > 0
    /\ execPre.target # 0
    /\ RLt(execPre.roll, GatherSuccessChance)
    /\ RLt(Zero, execPre.nodes[execPre.target].current_abundance)

\* What the harvests of the last call returned, as deposited.
Returned == RSub(Gathered(exec_inv), Gathered(execPre.inv))

\* C30: every node's abundance stays between 0 and its max_abundance
\* through harvests and regeneration; what a harvest returns lies between
\* 0 and the abundance before the call and the abundance falls by exactly
\* that; no node leaves the registry.
C30_AbundanceWithinBounds ==
    /\ DOMAIN res_nodes = ExecNodeIds
    /\ \A n \in ExecNodeIds :
          /\ RLe(Zero, res_nodes[n].current_abundance)
          /\ RLe(res_nodes[n].current_abundance, res_nodes[n].max_abundance)
    /\ Harvested =>
          /\ RLe(Zero, Returned)
          /\ RLe(Returned, execPre.nodes[execPre.target].current_abundance)
          /\ res_nodes[execPre.target].current_abundance =
                RSub(execPre.nodes[execPre.target].current_abundance, Returned)

\* A harvest that asked for more than the node had and took it to 0, the
\* yields deposited.
C30_Witness ==
    /\ Harvested
    /\ res_nodes[execPre.target].current_abundance = Zero
    /\ RLt(Zero, Returned)


\* In one member's loop, stack j was reduced while a stack with strictly
\* fewer days left still held something.
EatenOutOfTurn(pass, j) ==
    /\ RLt(pass.after[j].item.quantity, pass.before[j].item.quantity)
    /\ \E i \in 1..Len(pass.after) :
          /\ PerishUrgency(pass.after[i].item) < PerishUrgency(pass.after[j].item)
          /\ RLt(Zero, pass.after[i].item.quantity)

\* C29: in distribute_food each member eats the stacks in ascending order
\* of the days they have left (perish_days minus age): a stack is reduced
\* only when every stack with strictly fewer days left is empty, and no
\* quantity becomes negative.
C29_MostPerishableFirst ==
    \A p \in 1..Len(eatPasses) : \A j \in 1..Len(eatPasses[p].after) :
       /\ ~EatenOutOfTurn(eatPasses[p], j)
       /\ RLe(Zero, eatPasses[p].after[j].item.quantity)

\* The half of the claim that holds: no quantity becomes negative.
C29_NoNegativeQuantity ==
    \A p \in 1..Len(eatPasses) : \A j \in 1..Len(eatPasses[p].after) :
       RLe(Zero, eatPasses[p].after[j].item.quantity)


\* The recruits of the work parties formed in the last tick.
PartyRecruits == DOMAIN stage_log.leader \cap stage_log.party

\* The activity villager id carried out in stage 5 of the last tick.
ExecutedActivity(id) == stage_log.schedule[id][1]

\* C25: after the work parties are resolved a recruit's planned activity
\* is its leader's, and that is what it carries out that day; a villager
\* in no party that formed keeps its own plan and carries it out.
C25_RecruitsDoTheLeadersWork ==
    dayTicks > 0 =>
       /\ \A id \in PartyRecruits \cap stage_log.executed :
             ExecutedActivity(id) = ExecutedActivity(stage_log.leader[id])
       /\ \A id \in stage_log.executed \ stage_log.party :
             day_villagers[id].is_alive =>
                day_villagers[id].current_activity = ExecutedActivity(id)


\* The villagers born in the last tick: those the registry did not hold
\* before it.
Newborn == (Len(dayPre) + 1)..Len(day_villagers)

\* The mother of the k-th child of the last tick.
MotherOf(child) == IdSeq(stage_log.mothers)[child - Len(dayPre)]

\* C27: a living pregnant villager gives birth in the lifecycle stage of
\* the day her counter reaches PREGNANCY_DURATION_DAYS, so that no tick
\* ends with a living villager pregnant at or past the term; each birth
\* adds one living villager under an id no villager has had, a member of
\* the mother's family, and leaves the mother with the counter at 0, not
\* pregnant unless she conceived anew that evening, and
\* POST_BIRTH_RECOVERY_DAYS of recovery.
C27_BirthAtTerm ==
    dayTicks > 0 =>
       /\ \A id \in AliveIn(day_villagers) :
             ~(day_villagers[id].is_pregnant
               /\ day_villagers[id].pregnancy_days >= PREGNANCY_DURATION_DAYS)
       /\ \A m \in 1..Len(dayPre) :
             (m \in stage_log.mothers) <=>
                /\ dayPre[m].is_pregnant /\ day_villagers[m].is_alive
                /\ dayPre[m].pregnancy_days + 1 >= PREGNANCY_DURATION_DAYS
       /\ Cardinality(Newborn) = Cardinality(stage_log.mothers)
       /\ \A c \in Newborn :
             /\ day_villagers[c].is_alive
             /\ \A o \in 1..Len(day_villagers) :
                   o # c => day_villagers[o].id # day_villagers[c].id
             /\ day_villagers[c].id < day_registry.next_villager_id
             /\ day_villagers[c].family_id = day_villagers[MotherOf(c)].family_id
             /\ \E k \in 1..Len(day_registry.families[day_villagers[c].family_id]) :
                   day_registry.families[day_villagers[c].family_id][k] = day_villagers[c].id
       /\ \A m \in stage_log.mothers :
             /\ day_villagers[m].pregnancy_days = 0
             /\ day_villagers[m].recovery_days = POST_BIRTH_RECOVERY_DAYS
             /\ day_villagers[m].is_pregnant => is_fertile(Delivered(dayPre[m]))

\* A tick in which a child was born.
C27_Witness ==
    /\ dayTicks > 0
    /\ stage_log.mothers # {}
    /\ \E c \in Newborn : day_villagers[c].is_alive /\ day_villagers[c].age_days = 0


\* The last call married a couple from two families.
MarriedAcross ==
    /\ kinCalls > 0
    /\ kinPre.a # 0
    /\ kinPre.k.vs[kinPre.a].family_id # kinPre.k.vs[kinPre.b].family_id

\* The families of the bride and of the groom before the marriage.
BridesFamily == kinPre.k.vs[kinPre.a].family_id
GroomsFamily == kinPre.k.vs[kinPre.b].family_id

\* The ids in a member list.
MemberSet(fam) == {fam.member_ids[i] : i \in 1..Len(fam.member_ids)}

\* Villager id is a member of family f by the family's list and by its
\* own family_id.
BelongsTo(id, f) ==
    /\ f \in DOMAIN kin.families
    /\ id \in MemberSet(kin.families[f])
    /\ kin.vs[id].family_id = f

\* A family leaves the registry only when it has no members left.
DeletedOnlyEmpty ==
    kinCalls > 0 =>
       \A f \in DOMAIN kinPre.k.families \ DOMAIN kin.families :
          \A id \in MemberSet(kinPre.k.families[f]) : kin.vs[id].family_id # f

MoodOrders ==
    {o \in [1..Cardinality(AliveIn(stage_log.mood)) -> AliveIn(stage_log.mood)] :
       \A i, j \in DOMAIN o : i # j => o[i] # o[j]}

\* What spread_sentiment leaves of the villagers' sentiment.
Sentiments(vs) == [id \in 1..Len(vs) |-> vs[id].current_sentiment]

\* The sentiments the last tick's spread_sentiment ended with: nothing
\* after stage 10 writes current_sentiment.
SentimentsSpread == [id \in 1..Len(stage_log.mood) |-> day_villagers[id].current_sentiment]

\* C21: spread_sentiment computes every living villager's delta from the
\* sentiments of the beginning of the call and applies the deltas only
\* then, so that the outcome is the same in whatever order the villagers
\* are gone through; and every sentiment stays within 0..100.
C21_SentimentFromSnapshot ==
    dayTicks > 0 =>
       /\ \A o \in MoodOrders :
             Sentiments(spread_sentiment(stage_log.mood, o)) = SentimentsSpread
       /\ \A id \in AliveIn(stage_log.mood) :
             SentimentsSpread[id] =
                ClampM(0, stage_log.mood[id].current_sentiment
                            + sentiment_delta(stage_log.mood, id), 100000)
       /\ \A id \in 1..Len(day_villagers) :
             /\ 0 <= day_villagers[id].current_sentiment
             /\ day_villagers[id].current_sentiment <= 100000

\* A villager whose sentiment moved toward that of a contact whose own
\* sentiment moved in the same call.
C21_Witness ==
    /\ dayTicks > 0
    /\ \E a \in AliveIn(stage_log.mood), b \in AliveIn(stage_log.mood) :
          /\ a # b /\ b \in Contacts(stage_log.mood, a)
          /\ SentimentsSpread[a] # stage_log.mood[a].current_sentiment
          /\ SentimentsSpread[b] # stage_log.mood[b].current_sentiment


\* The records of the store that are about the two villagers, in either
\* order.
RecordsOf(store, a, b) == {k \in DOMAIN store : {k[1], k[2]} = {a, b}}

\* interaction_count of the pair's record, 0 when there is none.
InteractionsOf(store, a, b) == IF RecordsOf(store, a, b) = {} THEN 0 ELSE store[CHOOSE k \in RecordsOf(store, a, b) : TRUE].interaction_count

IsInteraction(call) == call.op \in {"positive", "negative"}

\* The store after the i-th call.
StoreAfter(i) == IF i = Len(relLog) THEN rel_store ELSE relLog[i + 1].store

\* C22: the store holds at most one record per unordered pair of villager
\* ids; an interaction recorded as (a, b) or as (b, a) updates that one
\* record, with the same result either way, and no call, a daily decay and
\* a death included, removes a record.
C22_OneRecordPerPair ==
    /\ \A i \in 1..Len(relLog) : DOMAIN relLog[i].store \subseteq DOMAIN StoreAfter(i)
    /\ relCalls > 0 => \A a \in RelIds, b \in RelIds : Cardinality(RecordsOf(rel_store, a, b)) <= 1
    /\ relCalls > 0 => \A k \in DOMAIN rel_store : rel_store[k].villager_a_id = k[1] /\ rel_store[k].villager_b_id = k[2]
    /\ \A i \in 1..Len(relLog) :
          IsInteraction(relLog[i]) =>
             /\ InteractionsOf(StoreAfter(i), relLog[i].a, relLog[i].b) = InteractionsOf(relLog[i].store, relLog[i].a, relLog[i].b) + 1
             /\ StoreAfter(i) = record_interaction(relLog[i].store, relLog[i].b, relLog[i].a, relLog[i].op = "positive", relLog[i].magnitude, relLog[i].day)
    /\ \A i \in 1..Len(relLog) : relLog[i].op = "death" => StoreAfter(i) = relLog[i].store

\* An interaction recorded as (1, 2), then one as (2, 1), then the death of
\* villager 1: the one record of the pair counts both.
C22_Witness ==
    /\ Len(relLog) = 3
    /\ IsInteraction(relLog[1]) /\ relLog[1].a = 1 /\ relLog[1].b = 2
    /\ IsInteraction(relLog[2]) /\ relLog[2].a = 2 /\ relLog[2].b = 1
    /\ relLog[3].op = "death" /\ relLog[3].a = 1
    /\ InteractionsOf(rel_store, 1, 2) = 2


\* trust and affinity within [-1, 1], familiarity within [0, 1]
InRange(r) ==
    /\ RLe(RNeg(One), r.trust) /\ RLe(r.trust, One)
    /\ RLe(RNeg(One), r.affinity) /\ RLe(r.affinity, One)
    /\ RLe(Zero, r.familiarity) /\ RLe(r.familiarity, One)

\* The record under the key before the i-th call: a fresh one when the
\* call created it.
RecordBefore(i, k) == IF k \in DOMAIN relLog[i].store THEN relLog[i].store[k] ELSE Relationship(k[1], k[2])

FamiliarityKept(i) == \A k \in DOMAIN StoreAfter(i) : StoreAfter(i)[k].familiarity = RecordBefore(i, k).familiarity

TrustDecaysOnlyIfPositive(i) ==
    \A k \in DOMAIN StoreAfter(i) :
       IF RLe(RecordBefore(i, k).trust, Zero)
       THEN StoreAfter(i)[k].trust = RecordBefore(i, k).trust
       ELSE RLe(Zero, StoreAfter(i)[k].trust)

\* C23: after any sequence of interactions, decays and opinions with
\* magnitudes >= 0 and days that never go back, every relationship has
\* trust and affinity in [-1, 1] and familiarity in [0, 1]; a negative
\* interaction leaves familiarity as it was; a daily decay leaves a trust
\* <= 0 as it was and never takes a positive trust below 0.
C23_RelationshipRanges ==
    /\ relCalls > 0 => \A k \in DOMAIN rel_store : InRange(rel_store[k])
    /\ \A i \in 1..Len(relLog) : relLog[i].op = "negative" => FamiliarityKept(i)
    /\ \A i \in 1..Len(relLog) : relLog[i].op = "decay" => TrustDecaysOnlyIfPositive(i)

\* A decay after which a negative trust is what it was and a positive
\* trust has come down to 0, in a store that also holds a record at a
\* bound.
C23_Witness ==
    /\ Len(relLog) = 3
    /\ relLog[3].op = "decay"
    /\ \E k \in DOMAIN rel_store : RLt(relLog[3].store[k].trust, Zero) /\ rel_store[k].trust = RNeg(One)
    /\ \E k \in DOMAIN rel_store : RLt(Zero, relLog[3].store[k].trust) /\ rel_store[k].trust = Zero


\* By how much a positive interaction raises the record's trust, and a
\* negative one lowers it.
TrustRaised(r, m) == RSub(positive_interaction(r, m).trust, r.trust)

TrustLowered(r, m) == RSub(r.trust, negative_interaction(r, m).trust)

\* Neither min(1.0, .) nor max(-1.0, .) cuts the new trust.
NoClamp(r, m) ==
    /\ RLe(RAdd(r.trust, RMul(TRUST_GAIN_PER_POSITIVE, m)), One)
    /\ RLe(RNeg(One), RSub(r.trust, RMul(TRUST_LOSS_PER_NEGATIVE, m)))

PositiveMagnitudes == {m \in RelMagnitudes : RLt(Zero, m)}

\* A positive call followed by a negative call of the same magnitude on
\* the same pair.
PositiveThenNegative(i) ==
    /\ i + 1 <= Len(relLog)
    /\ relLog[i].op = "positive" /\ relLog[i + 1].op = "negative"
    /\ {relLog[i].a, relLog[i].b} = {relLog[i + 1].a, relLog[i + 1].b}
    /\ relLog[i].magnitude = relLog[i + 1].magnitude
    /\ RLt(Zero, relLog[i].magnitude)

PairKey(i) == _pair_key(relLog[i].a, relLog[i].b)

LowerAfterPair(i) == RLt(StoreAfter(i + 1)[PairKey(i)].trust, RecordBefore(i, PairKey(i)).trust)

\* C24 as stated: for any magnitude m > 0 a negative interaction lowers
\* trust by strictly more than a positive interaction raises it, at every
\* trust value.
C24_LossOutweighsGain ==
    relCalls > 0 => \A k \in DOMAIN rel_store, m \in PositiveMagnitudes : RLt(TrustRaised(rel_store[k], m), TrustLowered(rel_store[k], m))

\* C24: for any magnitude m > 0, at a trust value at which no clamp
\* applies, a negative interaction lowers trust by strictly more than a
\* positive interaction raises it, and a positive interaction followed by
\* a negative one of the same magnitude leaves trust strictly lower than
\* before the pair.
C24_LossOutweighsGainUnclamped ==
    /\ relCalls > 0 =>
          \A k \in DOMAIN rel_store, m \in PositiveMagnitudes :
             NoClamp(rel_store[k], m) =>
                /\ RLt(TrustRaised(rel_store[k], m), TrustLowered(rel_store[k], m))
                /\ RLt(negative_interaction(positive_interaction(rel_store[k], m), m).trust, rel_store[k].trust)
    /\ \A i \in 1..Len(relLog) :
          (PositiveThenNegative(i) /\ NoClamp(RecordBefore(i, PairKey(i)), relLog[i].magnitude)) => LowerAfterPair(i)

\* A positive and then a negative interaction of magnitude 1.0 on a record
\* that was already there, far from the bounds.
C24_Witness ==
    /\ Len(relLog) = 3
    /\ PositiveThenNegative(2)
    /\ PairKey(2) \in DOMAIN relLog[2].store
    /\ NoClamp(relLog[2].store[PairKey(2)], relLog[2].magnitude)
    /\ LowerAfterPair(2)


OffersMade == offer_results # <<>> /\ offer_results[50].offer # None

\* The quantity of the item requested by the proposer of that ambition.
Requested(a, item_type) == EntryOf(offer_results[a].offer.requesting, item_type)

RequestedItems == {offer_results[50].unscaled[i][1] : i \in 1..Len(offer_results[50].unscaled)}

ToolRequested == \E t \in RequestedItems : Catalog(t).tool_type # ""

AsksNoLess(lower, higher) == \A t \in RequestedItems : RLe(Requested(lower, t), Requested(higher, t))

StageRank(stage) == CASE stage = "planted" -> 1 [] stage = "growing" -> 2 [] stage = "mature" -> 3 [] stage = "harvestable" -> 4 [] OTHER -> 0

\* One dawn update takes the plot from p to q.
StageMovesForward(p, q) ==
    /\ p.crop_stage = "failed" => q = p
    /\ p.crop_stage = "harvestable" => q.crop_stage = "harvestable"
    /\ (p.crop_stage # "failed" /\ q.crop_stage # "failed") => StageRank(q.crop_stage) >= StageRank(p.crop_stage)

\* The stages of every tick so far only moved forward, and farming took
\* away harvestable plots of the family only (and all of them on a harvest).
StagesForward ==
    \A i \in 1..Len(cropLog) :
        /\ Len(cropLog[i].dawn) = Len(cropLog[i].before)
        /\ \A k \in 1..Len(cropLog[i].before) : StageMovesForward(cropLog[i].before[k], cropLog[i].dawn[k])

HarvestTaken(e) ==
    IF e.activity = "farm_harvest" /\ e.success
    THEN e.end = SelectSeq(e.dawn, LAMBDA p : ~(p.crop_stage = "harvestable" /\ p.family_id = FarmingFamily))
    ELSE IF e.activity = "farm_plant" /\ e.success THEN SubSeq(e.end, 1, Len(e.dawn)) = e.dawn /\ Len(e.end) = Len(e.dawn) + 1
    ELSE e.end = e.dawn

HarvestRemoves == \A i \in 1..Len(cropLog) : HarvestTaken(cropLog[i])

\* No failed plot is left among the crop manager's plots.
FailedRemoved == \A k \in 1..Len(crop_plots) : crop_plots[k].crop_stage # "failed"

\* C31: a plot's stage only moves forward along planted, growing, mature,
\* harvestable; failed is absorbing and never harvested, a harvestable
\* plot never fails, and a plot leaves the crop manager's plots when it is
\* harvested or when it fails.
C31_PlotLifecycle == StagesForward /\ HarvestRemoves /\ FailedRemoved

\* C31, the part the code keeps: the order of the stages and the removal
\* on harvest.
C31_StagesAndHarvest == StagesForward /\ HarvestRemoves

\* C40: after a farm_tend of day d every plot of the family that is not
\* failed has, once the dawn update of day d+1 is done, one more tended day
\* and the tending bonus in its quality (a plot the frost of that dawn
\* kills is left out).
TendCounted(e, f) ==
    \A k \in 1..Len(e.end) :
        (e.end[k].family_id = FarmingFamily /\ e.end[k].crop_stage # "failed" /\ f.dawn[k].crop_stage # "failed")
            => f.dawn[k].times_tended = e.end[k].times_tended + 1

C40_TendingReachesGrowth ==
    \A i \in 1..(Len(cropLog) - 1) : cropLog[i].activity = "farm_tend" => TendCounted(cropLog[i], cropLog[i + 1])

\* C40, what the code does: no plot ever has a tended day.
C40_NeverTended == \A k \in 1..Len(crop_plots) : crop_plots[k].times_tended = 0

\* A farm_tend with a living plot of the family was followed by a dawn.
C40_TendThenDawn ==
    \E i \in 1..(Len(cropLog) - 1) :
        /\ cropLog[i].activity = "farm_tend"
        /\ cropLog[i].tended_positions # {}
        /\ \E k \in 1..Len(cropLog[i + 1].dawn) : cropLog[i + 1].dawn[k].family_id = FarmingFamily /\ cropLog[i + 1].dawn[k].crop_stage # "failed"


\* ---------------------------------------------------------------------
\* C32, C33: the night's decay and the bounds of fatigue
\* ---------------------------------------------------------------------

NeedAt(v, name) == v.needs[name].satisfaction

\* The need `name` went down by its full daily rate (or to 0) that night.
FullDecay(d, name) == NeedAt(d.night, name) = RMax(Zero, RSub(NeedAt(d.evening, name), DecayRate(name)))

\* The villager took part in an evening interaction that day.
Interacted_Evening(d) == d.started + d.received > 0

\* The villager carried out a productive activity that day.
WasProductive(d) == \E i \in 1..Len(d.schedule) : Carried(d.schedule[i])

\* C32: the social need is kept on the nights after an evening with an
\* interaction and decays by its full rate on the others; the purpose need
\* is kept exactly on the days with a productive activity carried out; the
\* health need is never changed by the night's decay.
Night_SocialKept(d) == IF Interacted_Evening(d) THEN NeedAt(d.night, "social") = NeedAt(d.evening, "social") ELSE FullDecay(d, "social")

Night_PurposeKept(d) == IF WasProductive(d) THEN NeedAt(d.night, "purpose") = NeedAt(d.evening, "purpose") ELSE FullDecay(d, "purpose")

Night_HealthKept(d) == NeedAt(d.night, "health") = NeedAt(d.evening, "health")

C32_DecayFollowsTheDay ==
    \A i \in 1..Len(toilLog) : Night_SocialKept(toilLog[i]) /\ Night_PurposeKept(toilLog[i]) /\ Night_HealthKept(toilLog[i])

\* C32, what the code keeps: health is not touched, and the other two
\* needs are either kept or decayed by the full rate, by the tests of
\* stage 9 (social above 0.7, the current activity).
Night_AsCoded(d) ==
    /\ Night_HealthKept(d)
    /\ IF RLt(R(7, 10), NeedAt(d.evening, "social")) THEN NeedAt(d.night, "social") = NeedAt(d.evening, "social") ELSE FullDecay(d, "social")
    /\ IF d.morning.current_activity \notin {"rest", "socialize", ""} THEN NeedAt(d.night, "purpose") = NeedAt(d.evening, "purpose") ELSE FullDecay(d, "purpose")

C32_DecayFollowsTheTests == \A i \in 1..Len(toilLog) : Night_AsCoded(toilLog[i])

\* A day without an interaction whose night kept the social need, and a
\* day whose productive work did not keep the purpose need.
C32_SocialKeptWithoutInteraction ==
    \E i \in 1..Len(toilLog) : ~Interacted_Evening(toilLog[i]) /\ NeedAt(toilLog[i].night, "social") = NeedAt(toilLog[i].evening, "social")

C32_PurposeDecayedAfterWork ==
    \E i \in 1..Len(toilLog) : WasProductive(toilLog[i]) /\ RLt(NeedAt(toilLog[i].night, "purpose"), NeedAt(toilLog[i].evening, "purpose"))

\* C33: fatigue lies within [0, 1] in every state: each morning, after
\* every plan of the schedule, in the evening and after the night.
FatigueInRange(v) == RLe(Zero, v.fatigue) /\ RLe(v.fatigue, One)

FatigueInRangeOn(d) ==
    /\ FatigueInRange(d.morning) /\ FatigueInRange(d.evening) /\ FatigueInRange(d.night)
    /\ \A k \in 1..Len(d.trace) : FatigueInRange(d.trace[k])

C33_FatigueWithinBounds == \A i \in 1..Len(toilLog) : FatigueInRangeOn(toilLog[i])

\* C33, the lower bound alone.
C33_FatigueNotNegative ==
    \A i \in 1..Len(toilLog) : RLe(Zero, toilLog[i].night.fatigue) /\ \A k \in 1..Len(toilLog[i].trace) : RLe(Zero, toilLog[i].trace[k].fatigue)


\* ---------------------------------------------------------------------
\* C34: the pick of a slot is the best candidate
\* ---------------------------------------------------------------------

\* _pick_next_activity for the first slot of the day just planned.
FirstPick ==
    pick_next_activity(planPre.villager,
                       WorldState(planPre.day.season, planPre.day.weather_modifier, planPre.resources, planPre.family_inventory),
                       planPre.day.daylight, 0, planPre.day.seed)

HighestScore(scored) == CHOOSE x \in {scored[i].score : i \in 1..Len(scored)} : \A i \in 1..Len(scored) : scored[i].score <= x

\* The plan is that of a candidate with the highest score.
IsBest(plan, scored) == \E i \in 1..Len(scored) : scored[i].plan = plan /\ scored[i].score = HighestScore(scored)

\* C34 on the days planned: the first plan of the schedule is the best
\* candidate of the first slot.
C34_FirstSlotBest ==
    (PlanDayReturned /\ FirstPick.found) => (schedule[1] = FirstPick.plan /\ IsBest(schedule[1], FirstPick.scored))


\* C34: _pick_next_activity returns the plan with the highest score among
\* the feasible candidates of the slot: neither the satisficing threshold
\* nor the ambition-adjusted threshold makes it settle for a lower one.
C34_BestOfTheSlot == pickCalls > 0 => IsBest(pick_plan, pick_scored)

\* The best candidate is below the satisficing threshold and a candidate
\* with a lower score reaches the ambition-adjusted threshold.
C34_BelowThreshold ==
    /\ pickCalls > 0
    /\ HighestScore(pick_scored) < SATISFICE_THRESHOLD
    /\ \E i \in 1..Len(pick_scored) :
          /\ pick_scored[i].score < HighestScore(pick_scored)
          /\ pick_scored[i].score >= MulM(SATISFICE_THRESHOLD, 700 + 6 * pick_ambition)


\* ---------------------------------------------------------------------
\* C36, C37: spouse links and family membership
\* ---------------------------------------------------------------------

\* a's spouse link is answered by its spouse, who is another villager of
\* the other sex and of the same family.
SpouseLinkSound(vs, a) ==
    /\ vs[a].spouse_id \in 1..Len(vs)
    /\ vs[a].spouse_id # a
    /\ vs[vs[a].spouse_id].spouse_id = a
    /\ vs[vs[a].spouse_id].sex # vs[a].sex
    /\ vs[vs[a].spouse_id].family_id = vs[a].family_id

Monogamous(vs) == \A a \in 1..Len(vs), c \in 1..Len(vs) : (a # c /\ vs[a].spouse_id # 0) => vs[a].spouse_id # vs[c].spouse_id

\* The marriage just formed joined two living, unmarried villagers of
\* sixteen or more.
Marriageable(v) == v.is_alive /\ v.spouse_id = 0 /\ v.age_years >= 16

JustMarried == kinCalls > 0 /\ kinPre.a # 0

\* C36: spouse links are symmetric and monogamous, between two different
\* villagers of different sex and of one family_id, and a marriage formed
\* by the engine joins two living, unmarried villagers of sixteen or more.
C36_SpouseLinks ==
    /\ \A a \in 1..Len(kin.vs) : kin.vs[a].spouse_id # 0 => SpouseLinkSound(kin.vs, a)
    /\ Monogamous(kin.vs)
    /\ JustMarried => (Marriageable(kinPre.k.vs[kinPre.a]) /\ Marriageable(kinPre.k.vs[kinPre.b]))

\* A second marriage of the run has just joined two families while a
\* married villager is dead.
C36_Witness ==
    /\ JustMarried
    /\ kinPre.k.vs[kinPre.a].family_id # kinPre.k.vs[kinPre.b].family_id
    /\ \E a \in 1..Len(kin.vs) : a \notin {kinPre.a, kinPre.b, 7, 8} /\ kin.vs[a].spouse_id # 0
    /\ \E a \in 1..Len(kin.vs) : kin.vs[a].spouse_id # 0 /\ ~kin.vs[a].is_alive

\* The families whose member list holds the id.
FamiliesOf(families, id) == {f \in DOMAIN families : InSeq(id, families[f].member_ids)}

NoDuplicates(ids) == \A i \in 1..Len(ids), j \in 1..Len(ids) : ids[i] = ids[j] => i = j

\* C37: each villager's family_id names a family of the registry whose
\* member list holds the villager's id, and no id is in the list of two
\* families or twice in one, across births and marriages.
C37_FamilyMembership ==
    /\ \A v \in 1..Len(kin.vs) : FamiliesOf(kin.families, v) = {kin.vs[v].family_id}
    /\ \A f \in DOMAIN kin.families : NoDuplicates(kin.families[f].member_ids)

\* A child has been born into a family joined by marriage, and a family
\* has been deleted.
C37_Witness ==
    /\ Len(kin.vs) > Len(KinVillagers)
    /\ kin.vs[Len(kin.vs)].family_id # 3
    /\ DOMAIN kin.families # 0..3


-----------------------------------------------------------------------------
(* A traded tool (SpecTrade).                                              *)

\* The stacks of item type t the target holds beyond those it held before
\* the call: add never merges a tool, it appends the item it is handed.
ReceivedStacks(t) ==
    SubSeq(StacksOf(target_inv, t),
           Len(StacksOf(tradePre.target_inv, t)) + 1,
           Len(StacksOf(target_inv, t)))

\* The offerer's oldest stack of item type t before the call is a tool with
\* durability left.
OfferedFunctional(t) ==
    /\ Catalog(t).tool_type # ""
    /\ StacksOf(tradePre.offerer_inv, t) # <<>>
    /\ RLt(Zero, StacksOf(tradePre.offerer_inv, t)[1].current_durability)

\* What the target received of item type t is a functional tool with the
\* durability it had in the offerer's hands.
ReceivedAsItWas(t) ==
    /\ ReceivedStacks(t) # <<>>
    /\ \A i \in 1..Len(ReceivedStacks(t)) :
          ReceivedStacks(t)[i].current_durability =
             StacksOf(tradePre.offerer_inv, t)[1].current_durability
    /\ has_tool_type(SetStacks(Inventory(target_inv.capacity), t, ReceivedStacks(t)),
                     Catalog(t).tool_type)

\* C39: after a successful execute_trade that hands over a tool with
\* durability left, the receiving inventory holds that tool as a functional
\* tool of its tool type, with the durability it had before the transfer.
C39_TradedToolKeepsDurability ==
    (tradeCall.op = "execute_trade" /\ tradeCall.ret) =>
        \A k \in 1..Len(tradeCall.offer.offering) :
            OfferedFunctional(tradeCall.offer.offering[k][1]) =>
                ReceivedAsItWas(tradeCall.offer.offering[k][1])

\* What the code does with it: the Item that Inventory.remove builds has the
\* durabilities of the dataclass, 0.0, and so has every stack received.
C39_TradedToolArrivesWorn ==
    (tradeCall.op = "execute_trade" /\ tradeCall.ret) =>
        \A k \in 1..Len(tradeCall.offer.offering) :
            OfferedFunctional(tradeCall.offer.offering[k][1]) =>
                \A i \in 1..Len(ReceivedStacks(tradeCall.offer.offering[k][1])) :
                    ReceivedStacks(tradeCall.offer.offering[k][1])[i].current_durability = Zero

\* A successful trade has handed over a tool that was functional.
C39_ToolTraded ==
    /\ tradeCall.op = "execute_trade"
    /\ tradeCall.ret
    /\ \E k \in 1..Len(tradeCall.offer.offering) :
          /\ OfferedFunctional(tradeCall.offer.offering[k][1])
          /\ ReceivedStacks(tradeCall.offer.offering[k][1]) # <<>>


-----------------------------------------------------------------------------
(* The population accounting (SpecCensus).                                 *)

\* The living count of the day before snapshot k: the population of the
\* snapshot before it, or the founders.
LivingBefore(k) ==
    IF k = 1 THEN FoundersLiving ELSE metrics.snapshots[k - 1].population

RECURSIVE SumOver(_, _, _)
SumOver(snaps, field, k) ==
    IF k > Len(snaps) THEN 0 ELSE snaps[k][field] + SumOver(snaps, field, k + 1)

\* Every snapshot balances: the living are those of the day before plus
\* the births minus the deaths of the snapshot.
SnapshotsBalance ==
    \A k \in 1..Len(metrics.snapshots) :
        metrics.snapshots[k].population =
            LivingBefore(k) + metrics.snapshots[k].births - metrics.snapshots[k].deaths

\* The dead collection holds each dead villager of the registry once, and
\* nobody else.
DeadListedOnce ==
    /\ \A i, j \in 1..Len(dead_villagers) :
          dead_villagers[i] = dead_villagers[j] => i = j
    /\ {dead_villagers[i] : i \in 1..Len(dead_villagers)} =
          (1..Len(day_villagers)) \ AliveIn(day_villagers)

\* Every death and every birth is in one snapshot: the snapshots' deaths
\* add up to the dead, their births to the villagers who joined the
\* founders, and the daily counters are back at 0.
CountedOnce ==
    /\ SumOver(metrics.snapshots, "deaths", 1) = Len(dead_villagers)
    /\ SumOver(metrics.snapshots, "births", 1) = Len(day_villagers) - FoundersLiving
    /\ metrics.daily_births = 0 /\ metrics.daily_deaths = 0

\* C38: at the end of every tick each snapshot's population is the living
\* count of the day before plus its births minus its deaths, every dead
\* villager is in the dead collection exactly once, every death and birth
\* is counted in exactly one snapshot, and the living plus the dead are the
\* whole registry.
C38_PopulationAccounting ==
    /\ SnapshotsBalance
    /\ DeadListedOnce
    /\ CountedOnce
    /\ Cardinality(AliveIn(day_villagers)) + Len(dead_villagers) = Len(day_villagers)
    /\ (dayTicks > 0 /\ censusPre.ran) =>
          /\ metrics.snapshots # <<>>
          /\ LivingBefore(Len(metrics.snapshots)) = censusPre.living

\* Two ticks have run, the first with a death and a birth, and the dead of
\* the first day are still in the registry on the second.
C38_Witness ==
    /\ dayTicks = 2
    /\ Len(metrics.snapshots) = 2
    /\ metrics.snapshots[1].deaths = 1 /\ metrics.snapshots[1].births = 1
    /\ metrics.snapshots[2].deaths = 0
    /\ dead_villagers # <<>>


-----------------------------------------------------------------------------
(* The work parties of the day (SpecParty).                                *)

MembersOf(party) == {party.member_ids[k] : k \in 1..Len(party.member_ids)}

\* No villager id is in two parties.
PartiesDisjoint ==
    \A i, j \in 1..Len(work_parties) :
        i # j => MembersOf(work_parties[i]) \cap MembersOf(work_parties[j]) = {}

\* A party lists its leader exactly once, its members are alive, and its
\* size is between the activity's min_group_size and five.
PartySound(party) ==
    /\ Cardinality({k \in 1..Len(party.member_ids) :
                      party.member_ids[k] = party.leader_id}) = 1
    /\ \A c \in MembersOf(party) : party_villagers[c].is_alive
    /\ Len(party.member_ids) >= ACTIVITIES(party.activity).min_group_size
    /\ Len(party.member_ids) <= PartyCap

\* C35: after resolve_work_parties no villager id is in more than one work
\* party, every party holds its leader exactly once, all members are
\* alive, every party has at least the activity's min_group_size and at
\* most 5 members, and the parties are those formed by this call: the
\* parties of the day before are gone.
C35_WorkParties ==
    (partyCalls > 0 /\ partyPre.op = "resolve_work_parties") =>
        /\ PartiesDisjoint
        /\ \A i \in 1..Len(work_parties) : PartySound(work_parties[i])
        /\ work_parties = partyPre.formed

\* The second morning: there were other parties the day before, and the
\* call has formed a party of five, leaving a willing friend of the leader
\* out, and a second party.
C35_Witness ==
    /\ partyCalls = 2 /\ partyPre.op = "resolve_work_parties"
    /\ partyPre.work_parties # <<>>
    /\ partyPre.work_parties # work_parties
    /\ Len(work_parties) = 2
    /\ \E i \in 1..Len(work_parties) :
          /\ Len(work_parties[i].member_ids) = PartyCap
          /\ \E c \in PartyIds \ MembersOf(work_parties[i]) :
                /\ c \in partyPre.willing /\ party_villagers[c].is_alive
                /\ \E k \in 1..Len(party_friends[work_parties[i].leader_id]) :
                      party_friends[work_parties[i].leader_id][k] = c

\* A leader found too few recruits: no party was formed for it, and those
\* who did accept took over its activity.
C35_TooFew ==
    /\ partyCalls > 0 /\ partyPre.op = "resolve_work_parties"
    /\ \E id \in PartyIds :
          /\ party_villagers[id].is_alive
          /\ partyPre.morning[id] \in {"build_road", "socialize"}
          /\ \A i \in 1..Len(work_parties) : id \notin MembersOf(work_parties[i])


\* A call after a death: a member of a party of the day before has died,
\* and parties were formed among the living.
C35_AfterADeath ==
    /\ partyCalls = 2 /\ partyPre.op = "resolve_work_parties"
    /\ work_parties # <<>>
    /\ \E id \in PartyIds :
          /\ ~party_villagers[id].is_alive
          /\ \E i \in 1..Len(partyPre.work_parties) :
                id \in MembersOf(partyPre.work_parties[i])
          /\ \E i \in 1..Len(work_parties), k \in 1..Len(party_friends[id]) :
                party_friends[id][k] = work_parties[i].leader_id

=========================================================================
